---- MODULE Spec2Model ----
(***************************************************************************)
(* Verification model of the match statistics engine of the Lorcana match  *)
(* tracker: the round write path (RoundForm.handleSubmit,                  *)
(* EventList.handleDeleteRound, deleteEvent) acting on the stored event    *)
(* document and its rounds sub-collection, and the read path (EventList,   *)
(* EventDetail, DeckList) that folds the fetched rounds into statistics.   *)
(***************************************************************************)
EXTENDS Integers, Sequences, FiniteSets, TLC

VARIABLES
  event,      \* the stored event document users/{uid}/events/{eventId}
  rounds,     \* its rounds sub-collection: round id -> games array
  nextId,     \* next auto-generated round id (addDoc)
  alert,      \* alert() shown by the most recent handler run
  error,      \* RoundForm's error state
  ops,        \* per client: the round mutation in flight between its awaits
  del,        \* the deleteEvent call in flight
  init0,      \* the store as it was in the initial state (history)
  listView,   \* EventList's events state entry for the event
  detailView, \* EventDetail's event state
  deckView,   \* DeckList's decks state entry for the deck
  others,     \* the user's newer event documents, each with its rounds
  totals,     \* the accumulators of a finished fold over rounds
  roundForm,  \* RoundForm as EventList renders it: props and form state
  deckForm,   \* DeckForm's state
  eventTypeFilter, \* EventList's eventTypeFilter state
  callbacks,  \* onSnapshot callbacks that have started and not yet returned
  snapshots,  \* per listener: the number of snapshots delivered so far
  events,     \* EventList's events state: ids in display order, and the
              \* snapshot they were computed from
  decks       \* DeckList's decks state, likewise

vars == <<event, rounds, nextId, alert, error, ops, del, init0,
          listView, detailView, deckView, others, totals,
          roundForm, deckForm, eventTypeFilter, callbacks, snapshots,
              events, decks>>

(***************************************************************************)
(* Bounds                                                                  *)
(***************************************************************************)
\* games per submitted round in Spec
MaxGames == 3
\* rounds ever added to the event in Spec
MaxRounds == 2
\* games persisted under the event at any time in Spec
MaxStoredGames == 4
\* largest stored counter value SpecTrip starts from
MaxTripCounter == 1
\* games per submitted round in SpecConc and SpecDelete
MaxConcGames == 2
\* games per initially stored round in SpecConc and SpecDelete
MaxConcInitGames == 1
\* rounds in the collection the read views fetch in SpecRead
MaxReadRounds == 2
\* games in the collection the read views fetch in SpecRead
MaxReadGames == 3

\* onThePlay values the form submits in the write-path specifications;
\* the write path never reads the flag
\* events of the user in SpecDeck
MaxDeckEvents == 2
\* rounds per event in SpecDeck
MaxDeckRounds == 3
\* rounds persisted under all the events together in SpecDeck
MaxDeckTotalRounds == 5
\* games persisted under all the events together in SpecDeck
MaxDeckGames == 2
\* single-game rounds of the event in SpecRate
MaxRateGames == 160
\* games of the stored round in SpecInvalid
MaxInvalidGames == 2
\* largest stored counter value SpecTally starts from
MaxTallyCounter == 1
\* event documents of the user in SpecList
MaxListEvents == 2
\* deck documents of the user in SpecList
MaxListDecks == 2
\* snapshots a listener delivers in SpecList
MaxSnapshots == 2
\* games the round form holds in SpecForm
MaxFormGames == 4
\* rounds ever added to the event in SpecForm
MaxFormRounds == 1

FormOnThePlay == {TRUE}

(***************************************************************************)
(* Data                                                                    *)
(***************************************************************************)
Results == {"win", "loss", "draw"}

Game(r, p) == [result |-> r, onThePlay |-> p]

RECURSIVE SeqsUpTo(_, _)
SeqsUpTo(S, n) ==
  IF n = 0 THEN {<<>>}
  ELSE LET shorter == SeqsUpTo(S, n - 1)
       IN  shorter \cup {Append(s, x) : s \in {t \in shorter : Len(t) = n - 1}, x \in S}

FormGames == {Game(r, p) : r \in Results, p \in FormOnThePlay}

\* the games arrays a submitted form can hold
InputGameSeqs == SeqsUpTo(FormGames, MaxGames)

\* the opponentInkColors selections a submitted form can hold
InkChoices == {<<>>, <<"Amber">>}

NoAlert == "none"
AlertAdded == "Round added successfully!"
AlertUpdated == "Round updated successfully!"
AlertDeleted == "Round deleted successfully!"

NoError == "null"
ErrNoInk == "Please select at least one opponent ink color."
ErrNoGames == "Please add at least one game result."
ErrStorage == "storage write failed"
ErrMaxGames == "Maximum of 3 games per round for Tournament events."
ErrMaxInks == "You can select a maximum of two ink colors."
ErrNoDeckName == "Deck name cannot be empty."
ErrNoDeckInk == "Please select at least one ink color."
AlertEventDeleted == "Event deleted successfully!"
AlertEventDeleteFailed == "Error deleting event"

NotLoaded == [loaded |-> FALSE]
Idle == [pc |-> "idle"]

\* the event types the event form offers
EventTypes == {"Tournament", "Playtest"}

\* no round id: the round form adds a round
NoRound == 0

\* RoundForm not rendered: selectedEventIdForRound is null
ClosedRoundForm ==
  [open |-> FALSE, eventType |-> "Tournament", roundId |-> NoRound,
   opponentInkColors |-> <<>>, games |-> <<>>]

\* DeckForm as mounted: the useState initial values
EmptyDeckForm == [name |-> "", selectedInkColors |-> <<>>, error |-> NoError, added |-> 0]

ZeroTally == [wins |-> 0, losses |-> 0, draws |-> 0]

\* the accumulators a fold over rounds starts from
ZeroFold ==
  [totalMatches |-> 0, matchesWon |-> 0, matchesLost |-> 0, matchesDrawn |-> 0,
   totalGames |-> 0, gamesWon |-> 0, gamesLost |-> 0, gamesDrawn |-> 0,
   gamesPlayedOnPlay |-> 0, gamesWonOnPlay |-> 0,
   gamesPlayedOnDraw |-> 0, gamesWonOnDraw |-> 0,
   playerWins |-> 0, playerLosses |-> 0]

(***************************************************************************)
(* Write path: tallies and the counter write                               *)
(***************************************************************************)
\* one iteration of the if / else-if chain of a games.forEach tally
tallyStep(acc, game) ==
  IF game.result = "win" THEN [acc EXCEPT !.wins = @ + 1]
  ELSE IF game.result = "loss" THEN [acc EXCEPT !.losses = @ + 1]
  ELSE IF game.result = "draw" THEN [acc EXCEPT !.draws = @ + 1]
  ELSE acc

RECURSIVE tallyFrom(_, _, _)
tallyFrom(games, i, acc) ==
  IF i > Len(games) THEN acc
  ELSE tallyFrom(games, i + 1, tallyStep(acc, games[i]))

currentRoundTally_emptyDraw(games) ==
  IF games = <<>> THEN [ZeroTally EXCEPT !.draws = 1]
  ELSE tallyFrom(games, 1, ZeroTally)

currentRoundTally_nodraw(games) ==
  [tallyFrom(games, 1, ZeroTally) EXCEPT !.draws = 0]

\* handleSubmit: currentRoundWins / Losses / Draws
currentRoundTally(games) == tallyFrom(games, 1, ZeroTally)

previousRoundTally_zero(roundData) == ZeroTally

previousRoundTally_twice(roundData) ==
  LET t == tallyFrom(roundData, 1, ZeroTally)
  IN  [wins |-> 2 * t.wins, losses |-> 2 * t.losses, draws |-> 2 * t.draws]

\* handleSubmit, edit branch: previousRoundWins / Losses / Draws
previousRoundTally(roundData) == tallyFrom(roundData, 1, ZeroTally)

deleteRoundTally_outcome(games) ==
  LET t == tallyFrom(games, 1, ZeroTally)
  IN  IF t.wins > t.losses THEN [wins |-> 1, losses |-> 0, draws |-> 0]
      ELSE IF t.losses > t.wins THEN [wins |-> 0, losses |-> 1, draws |-> 0]
      ELSE [wins |-> 0, losses |-> 0, draws |-> 1]

deleteRoundTally_nodraw(games) ==
  [tallyFrom(games, 1, ZeroTally) EXCEPT !.draws = 0]

\* handleDeleteRound: eventWins / eventLosses / eventDraws
deleteRoundTally(games) == tallyFrom(games, 1, ZeroTally)

increment_assign(cur, n) == n

\* Firestore increment(n) applied by the store to the current field value
increment(cur, n) == cur + n

\* updateDoc(eventRef, {wins: increment(dw), losses: increment(dl), draws: increment(dd)})
updateEventCounters(ev, dw, dl, dd) ==
  [ev EXCEPT !.wins = increment(@, dw),
             !.losses = increment(@, dl),
             !.draws = increment(@, dd)]

\* addDoc(collection(.../rounds), roundData)
addRoundDoc(rs, id, games) ==
  [r \in DOMAIN rs \cup {id} |-> IF r = id THEN games ELSE rs[r]]

\* updateDoc(roundDocRef, {opponentInkColors, games})
updateRoundDoc(rs, id, games) == [rs EXCEPT ![id] = games]

\* deleteDoc(doc(.../rounds, roundId))
deleteRoundDoc(rs, id) == [r \in DOMAIN rs \ {id} |-> rs[r]]

RECURSIVE StoredGames(_, _)
StoredGames(rs, ids) ==
  IF ids = {} THEN 0
  ELSE LET id == CHOOSE x \in ids : TRUE
       IN  Len(rs[id]) + StoredGames(rs, ids \ {id})

(***************************************************************************)
(* Spec: one actor, every handler runs to completion, no storage failure   *)
(***************************************************************************)
\* useState([]) of the lists
NothingShown == [ids |-> <<>>, snapshot |-> 0]

\* the forms closed and the lists without a subscription
ComponentsUnmounted ==
  /\ roundForm = ClosedRoundForm
  /\ deckForm = EmptyDeckForm
  /\ eventTypeFilter = "all"
  /\ callbacks = {}
  /\ snapshots = [events |-> 0, decks |-> 0]
  /\ events = NothingShown
  /\ decks = NothingShown

\* EventForm.handleSubmit, create branch: wins / losses / draws start at 0
NewEvent == [exists |-> TRUE, wins |-> 0, losses |-> 0, draws |-> 0, userDeckId |-> 1]

Init ==
  /\ event = NewEvent
  /\ rounds = <<>>
  /\ nextId = 1
  /\ alert = NoAlert
  /\ error = NoError
  /\ ops = <<>>
  /\ del = Idle
  /\ init0 = [event |-> NewEvent, rounds |-> <<>>]
  /\ ComponentsUnmounted
  /\ listView = NotLoaded
  /\ detailView = NotLoaded
  /\ deckView = NotLoaded
  /\ others = <<>>
  /\ totals = ZeroFold

validate_inkOnly(inks, games) == IF Len(inks) = 0 THEN ErrNoInk ELSE NoError

\* RoundForm.handleSubmit: the checks before the try block, as the error set
validate(inks, games) ==
  IF Len(inks) = 0 THEN ErrNoInk
  ELSE IF Len(games) = 0 THEN ErrNoGames
  ELSE NoError

\* RoundForm.handleSubmit returning at one of the checks before the try block
SubmitRejected(inks, games) ==
  /\ validate(inks, games) # NoError
  /\ error' = validate(inks, games)
  /\ alert' = NoAlert
  /\ UNCHANGED <<event, rounds, nextId>>

\* RoundForm.handleSubmit without roundId
SubmitAdd(inks, games) ==
  /\ validate(inks, games) = NoError
  /\ nextId <= MaxRounds
  /\ StoredGames(rounds, DOMAIN rounds) + Len(games) <= MaxStoredGames
  /\ event.exists
  /\ LET cur == currentRoundTally(games)
     IN  /\ rounds' = addRoundDoc(rounds, nextId, games)
         /\ event' = updateEventCounters(event, cur.wins, cur.losses, cur.draws)
  /\ nextId' = nextId + 1
  /\ alert' = AlertAdded
  /\ error' = NoError

\* RoundForm.handleSubmit with roundId; roundData is the round as loaded
SubmitEdit(rid, inks, games) ==
  /\ validate(inks, games) = NoError
  /\ rid \in DOMAIN rounds
  /\ StoredGames(rounds, DOMAIN rounds \ {rid}) + Len(games) <= MaxStoredGames
  /\ event.exists
  /\ LET cur == currentRoundTally(games)
         prev == previousRoundTally(rounds[rid])
     IN  /\ rounds' = updateRoundDoc(rounds, rid, games)
         /\ event' = updateEventCounters(event, cur.wins - prev.wins,
                                         cur.losses - prev.losses,
                                         cur.draws - prev.draws)
  /\ alert' = AlertUpdated
  /\ error' = NoError
  /\ UNCHANGED nextId

\* EventList.handleDeleteRound declined at window.confirm
DeleteRoundCancelled ==
  /\ alert' = NoAlert
  /\ UNCHANGED <<event, rounds, nextId, error>>

\* EventList.handleDeleteRound(eventId, roundId, games), confirmed
DeleteRound(rid) ==
  /\ rid \in DOMAIN rounds
  /\ event.exists
  /\ LET t == deleteRoundTally(rounds[rid])
     IN  /\ rounds' = deleteRoundDoc(rounds, rid)
         /\ event' = updateEventCounters(event, -t.wins, -t.losses, -t.draws)
  /\ alert' = AlertDeleted
  /\ UNCHANGED <<nextId, error>>

UnusedInSpec ==
  UNCHANGED <<ops, del, init0, listView, detailView, deckView, others, totals,
              roundForm, deckForm, eventTypeFilter, callbacks, snapshots,
              events, decks>>

Next ==
  \/ \E inks \in InkChoices, games \in {<<>>, <<Game("win", TRUE)>>} :
       SubmitRejected(inks, games) /\ UnusedInSpec
  \/ \E inks \in InkChoices \ {<<>>}, games \in InputGameSeqs :
       SubmitAdd(inks, games) /\ UnusedInSpec
  \/ \E rid \in DOMAIN rounds, inks \in InkChoices \ {<<>>}, games \in InputGameSeqs :
       SubmitEdit(rid, inks, games) /\ UnusedInSpec
  \/ DeleteRoundCancelled /\ UnusedInSpec
  \/ \E rid \in DOMAIN rounds : DeleteRound(rid) /\ UnusedInSpec

Spec == Init /\ [][Next]_vars

(***************************************************************************)
(* SpecTrip: from any stored counters and rounds, add a round and then     *)
(* delete that round                                                       *)
(***************************************************************************)
TripCounters == -1..MaxTripCounter

TripRounds == {<<>>} \cup {(1 :> g) : g \in InputGameSeqs \ {<<>>}}

TripInit ==
  /\ event \in {[NewEvent EXCEPT !.wins = w, !.losses = l, !.draws = d] :
                  w \in TripCounters, l \in TripCounters, d \in TripCounters}
  /\ rounds \in TripRounds
  /\ nextId = Cardinality(DOMAIN rounds) + 1
  /\ alert = NoAlert
  /\ error = NoError
  /\ ops = <<>>
  /\ del = Idle
  /\ init0 = [event |-> event, rounds |-> rounds]
  /\ ComponentsUnmounted
  /\ listView = NotLoaded
  /\ detailView = NotLoaded
  /\ deckView = NotLoaded
  /\ others = <<>>
  /\ totals = ZeroFold

TripNext ==
  \/ /\ alert = NoAlert
     /\ \E games \in InputGameSeqs : SubmitAdd(<<"Amber">>, games)
     /\ UnusedInSpec
  \/ /\ alert = AlertAdded
     /\ DeleteRound(nextId - 1)
     /\ UnusedInSpec

SpecTrip == TripInit /\ [][TripNext]_vars

(***************************************************************************)
(* The handlers step by step: each await is a separate storage write       *)
(***************************************************************************)
Clients == {1, 2}

ConcGameSeqs == SeqsUpTo(FormGames, MaxConcGames) \ {<<>>}

ConcInitGameSeqs == SeqsUpTo(FormGames, MaxConcInitGames) \ {<<>>}

\* the counters of the event as the client's list has them loaded
LoadedCounters(ev) == [wins |-> ev.wins, losses |-> ev.losses, draws |-> ev.draws]

\* handleSubmit without roundId, up to the first await
BeginAdd(c, games) ==
  /\ ops[c].pc = "idle"
  /\ games # <<>>
  /\ ops' = [ops EXCEPT ![c] =
       [pc |-> "round", kind |-> "add", rid |-> 0, games |-> games, roundData |-> <<>>,
        d |-> currentRoundTally(games), seen |-> LoadedCounters(event),
        loading |-> TRUE, formGames |-> games, roundAdded |-> 0]]
  /\ error' = NoError
  /\ alert' = NoAlert
  /\ UNCHANGED <<event, rounds, nextId>>

\* handleSubmit with roundId, up to the first await; roundData is the round
\* as the list has it loaded
BeginEdit(c, rid, games) ==
  /\ ops[c].pc = "idle"
  /\ games # <<>>
  /\ rid \in DOMAIN rounds
  /\ LET cur == currentRoundTally(games)
         prev == previousRoundTally(rounds[rid])
     IN  ops' = [ops EXCEPT ![c] =
           [pc |-> "round", kind |-> "edit", rid |-> rid, games |-> games,
            roundData |-> rounds[rid],
            d |-> [wins |-> cur.wins - prev.wins, losses |-> cur.losses - prev.losses,
                   draws |-> cur.draws - prev.draws],
            seen |-> LoadedCounters(event),
            loading |-> TRUE, formGames |-> games, roundAdded |-> 0]]
  /\ error' = NoError
  /\ alert' = NoAlert
  /\ UNCHANGED <<event, rounds, nextId>>

\* handleDeleteRound(eventId, roundId, games), up to the first await
BeginDelete(c, rid) ==
  /\ ops[c].pc = "idle"
  /\ rid \in DOMAIN rounds
  /\ LET t == deleteRoundTally(rounds[rid])
     IN  ops' = [ops EXCEPT ![c] =
           [pc |-> "round", kind |-> "delete", rid |-> rid, games |-> rounds[rid],
            roundData |-> rounds[rid],
            d |-> [wins |-> 0 - t.wins, losses |-> 0 - t.losses, draws |-> 0 - t.draws],
            seen |-> LoadedCounters(event),
            loading |-> FALSE, formGames |-> <<>>, roundAdded |-> 0]]
  /\ alert' = NoAlert
  /\ UNCHANGED <<event, rounds, nextId, error>>

\* after the second await: the form is reset and onRoundAdded called
\* (handleSubmit only), then the finally block
succeeded(op) ==
  IF op.kind = "delete" THEN [op EXCEPT !.pc = "done"]
  ELSE [op EXCEPT !.pc = "done", !.formGames = <<>>, !.roundAdded = @ + 1,
                  !.loading = FALSE]

\* an await rejected: the catch block, then the finally block
caught(op) == [op EXCEPT !.pc = "failed", !.loading = FALSE]

\* first await: addDoc / updateDoc(roundDocRef) / deleteDoc of the round
RoundWrite(c) ==
  /\ ops[c].pc = "round"
  /\ ops[c].kind = "edit" => ops[c].rid \in DOMAIN rounds
  /\ rounds' = CASE ops[c].kind = "add" -> addRoundDoc(rounds, nextId, ops[c].games)
                 [] ops[c].kind = "edit" -> updateRoundDoc(rounds, ops[c].rid, ops[c].games)
                 [] ops[c].kind = "delete" -> deleteRoundDoc(rounds, ops[c].rid)
  /\ nextId' = IF ops[c].kind = "add" THEN nextId + 1 ELSE nextId
  /\ ops' = [ops EXCEPT ![c].pc = "counter"]
  /\ UNCHANGED <<event, alert, error>>

\* first await rejects: updateDoc of a round document that no longer exists
RoundWriteFail(c) ==
  /\ ops[c].pc = "round"
  /\ ops[c].kind = "edit"
  /\ ops[c].rid \notin DOMAIN rounds
  /\ ops' = [ops EXCEPT ![c] = caught(@)]
  /\ error' = ErrStorage
  /\ UNCHANGED <<event, rounds, nextId, alert>>

CounterWrite_overwrite(c) ==
  /\ ops[c].pc = "counter"
  /\ event.exists
  /\ event' = [event EXCEPT !.wins = ops[c].seen.wins + ops[c].d.wins,
                            !.losses = ops[c].seen.losses + ops[c].d.losses,
                            !.draws = ops[c].seen.draws + ops[c].d.draws]
  /\ ops' = [ops EXCEPT ![c] = succeeded(@)]
  /\ alert' = CASE ops[c].kind = "add" -> AlertAdded
                [] ops[c].kind = "edit" -> AlertUpdated
                [] ops[c].kind = "delete" -> AlertDeleted
  /\ UNCHANGED <<rounds, nextId, error>>

\* second await: updateDoc(eventRef, {wins: increment(..), ...}), then the alert
CounterWrite(c) ==
  /\ ops[c].pc = "counter"
  /\ event.exists
  /\ event' = updateEventCounters(event, ops[c].d.wins, ops[c].d.losses, ops[c].d.draws)
  /\ ops' = [ops EXCEPT ![c] = succeeded(@)]
  /\ alert' = CASE ops[c].kind = "add" -> AlertAdded
                [] ops[c].kind = "edit" -> AlertUpdated
                [] ops[c].kind = "delete" -> AlertDeleted
  /\ UNCHANGED <<rounds, nextId, error>>

\* second await rejects: updateDoc of an event document that no longer exists
CounterWriteFail(c) ==
  /\ ops[c].pc = "counter"
  /\ ~event.exists
  /\ ops' = [ops EXCEPT ![c] = caught(@)]
  /\ error' = ErrStorage
  /\ UNCHANGED <<event, rounds, nextId, alert>>

\* a store whose counters were produced by adding its rounds one by one
RECURSIVE CountersAfterAdding(_, _, _)
CountersAfterAdding(ev, rs, ids) ==
  IF ids = {} THEN ev
  ELSE LET id == CHOOSE x \in ids : TRUE
           t == currentRoundTally(rs[id])
       IN  CountersAfterAdding(updateEventCounters(ev, t.wins, t.losses, t.draws),
                               rs, ids \ {id})

(***************************************************************************)
(* SpecConc: two round mutations on the same event, writes interleaved     *)
(***************************************************************************)
ConcInit ==
  /\ rounds \in {(1 :> g) : g \in ConcInitGameSeqs}
  /\ event = CountersAfterAdding(NewEvent, rounds, DOMAIN rounds)
  /\ nextId = 2
  /\ alert = NoAlert
  /\ error = NoError
  /\ ops = [c \in Clients |-> Idle]
  /\ del = Idle
  /\ init0 = [event |-> event, rounds |-> rounds]
  /\ ComponentsUnmounted
  /\ listView = NotLoaded
  /\ detailView = NotLoaded
  /\ deckView = NotLoaded
  /\ others = <<>>
  /\ totals = ZeroFold

UnusedInConc ==
  UNCHANGED <<del, init0, listView, detailView, deckView, others, totals,
              roundForm, deckForm, eventTypeFilter, callbacks, snapshots,
              events, decks>>

ConcNext ==
  \/ \E c \in Clients, games \in ConcGameSeqs : BeginAdd(c, games) /\ UnusedInConc
  \/ \E c \in Clients, rid \in DOMAIN rounds, games \in ConcGameSeqs :
       BeginEdit(c, rid, games) /\ UnusedInConc
  \/ \E c \in Clients, rid \in DOMAIN rounds : BeginDelete(c, rid) /\ UnusedInConc
  \/ \E c \in Clients : RoundWrite(c) /\ UnusedInConc
  \/ \E c \in Clients : RoundWriteFail(c) /\ UnusedInConc
  \/ \E c \in Clients : CounterWrite(c) /\ UnusedInConc

SpecConc == ConcInit /\ [][ConcNext]_vars

(***************************************************************************)
(* SpecDelete: deleteEvent step by step while a round is being added       *)
(***************************************************************************)
\* deleteEvent: getDocs(roundsRef)
DeleteEventGetDocs ==
  /\ del.pc = "idle"
  /\ event.exists
  /\ del' = [pc |-> "batch", snapshot |-> DOMAIN rounds]
  /\ UNCHANGED <<event, rounds, nextId, alert, error, ops>>

\* deleteEvent: batch.commit() of the deletes of the fetched round documents
DeleteEventCommit ==
  /\ del.pc = "batch"
  /\ rounds' = [r \in DOMAIN rounds \ del.snapshot |-> rounds[r]]
  /\ del' = [del EXCEPT !.pc = "event"]
  /\ UNCHANGED <<event, nextId, alert, error, ops>>

\* deleteEvent: deleteDoc(eventRef); handleDeleteEvent then alerts success
DeleteEventDoc ==
  /\ del.pc = "event"
  /\ event' = [event EXCEPT !.exists = FALSE]
  /\ del' = [del EXCEPT !.pc = "done"]
  /\ alert' = AlertEventDeleted
  /\ UNCHANGED <<rounds, nextId, error, ops>>

\* deleteEvent: batch.commit() or deleteDoc(eventRef) rejects; the error is
\* rethrown and handleDeleteEvent alerts it
DeleteEventFail ==
  /\ del.pc \in {"batch", "event"}
  /\ del' = [del EXCEPT !.pc = "failed"]
  /\ alert' = AlertEventDeleteFailed
  /\ UNCHANGED <<event, rounds, nextId, error, ops>>

DeleteInit ==
  /\ rounds \in {<<>>} \cup {(1 :> g) : g \in ConcInitGameSeqs}
                \cup {(1 :> g) @@ (2 :> h) : g \in ConcInitGameSeqs, h \in ConcInitGameSeqs}
  /\ event = CountersAfterAdding(NewEvent, rounds, DOMAIN rounds)
  /\ nextId = Cardinality(DOMAIN rounds) + 1
  /\ alert = NoAlert
  /\ error = NoError
  /\ ops = [c \in {1} |-> Idle]
  /\ del = Idle
  /\ init0 = [event |-> event, rounds |-> rounds]
  /\ ComponentsUnmounted
  /\ listView = NotLoaded
  /\ detailView = NotLoaded
  /\ deckView = NotLoaded
  /\ others = <<>>
  /\ totals = ZeroFold

UnusedInDelete ==
  UNCHANGED <<init0, listView, detailView, deckView, others, totals,
              roundForm, deckForm, eventTypeFilter, callbacks, snapshots,
              events, decks>>

DeleteNext ==
  \/ \E games \in ConcGameSeqs : BeginAdd(1, games) /\ UNCHANGED del /\ UnusedInDelete
  \/ RoundWrite(1) /\ UNCHANGED del /\ UnusedInDelete
  \/ CounterWrite(1) /\ UNCHANGED del /\ UnusedInDelete
  \/ CounterWriteFail(1) /\ UNCHANGED del /\ UnusedInDelete
  \/ DeleteEventGetDocs /\ UnusedInDelete
  \/ DeleteEventCommit /\ UnusedInDelete
  \/ DeleteEventDoc /\ UnusedInDelete
  \/ DeleteEventFail /\ UnusedInDelete

SpecDelete == DeleteInit /\ [][DeleteNext]_vars

(***************************************************************************)
(* Read path: per-round derivation, fold and rates of the three views      *)
(***************************************************************************)
Bump(acc, f) == [acc EXCEPT ![f] = @ + 1]

ZeroRound ==
  [playerWins |-> 0, playerLosses |-> 0, playerDraws |-> 0,
   onPlayWins |-> 0, onPlayLosses |-> 0, onPlayDraws |-> 0,
   onDrawWins |-> 0, onDrawLosses |-> 0, onDrawDraws |-> 0]

\* query(roundsCollectionRef, orderBy('createdAt', 'asc')): ids in creation order
RECURSIVE orderByCreatedAt(_)
orderByCreatedAt(ids) ==
  IF ids = {} THEN <<>>
  ELSE LET last == CHOOSE x \in ids : \A y \in ids : y <= x
       IN  Append(orderByCreatedAt(ids \ {last}), last)

\* getDocs of a collection without orderBy: the documents in some order
Orders(ids) ==
  {o \in [1..Cardinality(ids) -> ids] : \A i, j \in DOMAIN o : i # j => o[i] # o[j]}

\* IEEE 754 binary64 significands are held as five limbs <<top, l1, l2, l3, l4>>
\* of value top * 2^52 + l1 * 2^39 + l2 * 2^26 + l3 * 2^13 + l4
LimbBase == 8192

\* the limbs with the carries taken from the low limb up
Carried(l) ==
  LET l4 == l[5]
      l3 == l[4] + l4 \div LimbBase
      l2 == l[3] + l3 \div LimbBase
      l1 == l[2] + l2 \div LimbBase
      l0 == l[1] + l1 \div LimbBase
  IN  <<l0, l1 % LimbBase, l2 % LimbBase, l3 % LimbBase, l4 % LimbBase>>

Times(l, c) == Carried([i \in 1..5 |-> l[i] * c])

AddLow(l, a) == Carried([l EXCEPT ![5] = @ + a])

\* the k with 1 <= n * 2^k / d < 2, for 0 < n <= d
RECURSIVE Exponent(_, _, _)
Exponent(n, d, k) == IF n * 2^k >= d THEN k ELSE Exponent(n, d, k + 1)

\* n / d: the quotient n * 2^k / d rounded to 53 bits, ties to even
float64_div(n, d, k) ==
  LET n0 == n * 2^k
      r0 == n0 % d
      r1 == (r0 * LimbBase) % d
      r2 == (r1 * LimbBase) % d
      r3 == (r2 * LimbBase) % d
      r4 == (r3 * LimbBase) % d
      q == <<n0 \div d, (r0 * LimbBase) \div d, (r1 * LimbBase) \div d,
             (r2 * LimbBase) \div d, (r3 * LimbBase) \div d>>
  IN  IF 2 * r4 > d \/ (2 * r4 = d /\ q[5] % 2 = 1) THEN AddLow(q, 1) ELSE q

\* x * 100: the product p = x * 100 rounded to 53 bits, ties to even
float64_round(p) ==
  LET s == IF p[1] >= 128 THEN 7 ELSE 6
      rem == p[5] % 2^s
      odd == (p[5] \div 2^s) % 2 = 1
      y == [p EXCEPT ![5] = @ - rem]
  IN  IF rem > 2^(s - 1) \/ (rem = 2^(s - 1) /\ odd) THEN AddLow(y, 2^s) ELSE y

\* x.toFixed(2): the integer n for which n / 100 - x is closest to zero, the
\* larger n if there are two; x is y * 2^(-52 - k)
Number_toFixed2(y, k) ==
  LET t == Times(y, 100)
  IN  t[1] \div 2^k
      + (IF k > 0 THEN (t[1] \div 2^(k - 1)) % 2 ELSE t[2] \div (LimbBase \div 2))

\* parseFloat(((n / d) * 100).toFixed(2)), in hundredths of a percent, for
\* 0 <= n <= d and d > 0
toFixed2(n, d) ==
  IF n = 0 THEN 0
  ELSE LET k == Exponent(n, d, 0)
       IN  Number_toFixed2(float64_round(Times(float64_div(n, d, k), 100)), k)

winRate_full(n, d) == IF d > 0 THEN toFixed2(n, d) ELSE 10000

\* d > 0 ? (n / d) * 100 : 0, then parseFloat(x.toFixed(2))
winRate(n, d) == IF d > 0 THEN toFixed2(n, d) ELSE 0

\* ---- EventList: onSnapshot callback ----
EventList_roundGame(acc, game) ==
  LET a == IF game.onThePlay
           THEN IF game.result = "win" THEN Bump(acc, "onPlayWins")
                ELSE IF game.result = "loss" THEN Bump(acc, "onPlayLosses")
                ELSE IF game.result = "draw" THEN Bump(acc, "onPlayDraws")
                ELSE acc
           ELSE IF game.result = "win" THEN Bump(acc, "onDrawWins")
                ELSE IF game.result = "loss" THEN Bump(acc, "onDrawLosses")
                ELSE IF game.result = "draw" THEN Bump(acc, "onDrawDraws")
                ELSE acc
  IN  IF game.result = "win" THEN Bump(a, "playerWins")
      ELSE IF game.result = "loss" THEN Bump(a, "playerLosses")
      ELSE IF game.result = "draw" THEN Bump(a, "playerDraws")
      ELSE a

RECURSIVE EventList_roundGames(_, _, _)
EventList_roundGames(games, i, acc) ==
  IF i > Len(games) THEN acc
  ELSE EventList_roundGames(games, i + 1, EventList_roundGame(acc, games[i]))

EventList_outcome(playerWins, playerLosses) ==
  IF playerWins > playerLosses THEN "win"
  ELSE IF playerLosses > playerWins THEN "loss"
  ELSE "draw"

\* roundsSnapshot.docs.map(roundDoc => ...)
EventList_mapRound(id, games) ==
  LET t == EventList_roundGames(games, 1, ZeroRound)
  IN  [id |-> id, games |-> games,
       outcome |-> EventList_outcome(t.playerWins, t.playerLosses),
       roundWins |-> t.playerWins, roundLosses |-> t.playerLosses,
       roundDraws |-> t.playerDraws,
       onPlayWins |-> t.onPlayWins, onPlayLosses |-> t.onPlayLosses,
       onPlayDraws |-> t.onPlayDraws,
       onDrawWins |-> t.onDrawWins, onDrawLosses |-> t.onDrawLosses,
       onDrawDraws |-> t.onDrawDraws]

EventList_mapRounds(rs) ==
  LET ids == orderByCreatedAt(DOMAIN rs)
  IN  [i \in DOMAIN ids |-> EventList_mapRound(ids[i], rs[ids[i]])]

EventList_foldGame(acc, game) ==
  LET a0 == Bump(acc, "totalGames")
      a1 == IF game.result = "win" THEN Bump(Bump(a0, "gamesWon"), "playerWins")
            ELSE IF game.result = "loss" THEN Bump(Bump(a0, "gamesLost"), "playerLosses")
            ELSE IF game.result = "draw" THEN Bump(a0, "gamesDrawn")
            ELSE a0
  IN  IF game.onThePlay
      THEN IF game.result = "win"
           THEN Bump(Bump(a1, "gamesPlayedOnPlay"), "gamesWonOnPlay")
           ELSE Bump(a1, "gamesPlayedOnPlay")
      ELSE IF game.result = "win"
           THEN Bump(Bump(a1, "gamesPlayedOnDraw"), "gamesWonOnDraw")
           ELSE Bump(a1, "gamesPlayedOnDraw")

RECURSIVE EventList_foldGames(_, _, _)
EventList_foldGames(games, i, acc) ==
  IF i > Len(games) THEN acc
  ELSE EventList_foldGames(games, i + 1, EventList_foldGame(acc, games[i]))

EventList_foldRound(acc, round) ==
  LET a0 == [Bump(acc, "totalMatches") EXCEPT !.playerWins = 0, !.playerLosses = 0]
      a1 == EventList_foldGames(round.games, 1, a0)
  IN  IF a1.playerWins > a1.playerLosses THEN Bump(a1, "matchesWon")
      ELSE IF a1.playerLosses > a1.playerWins THEN Bump(a1, "matchesLost")
      ELSE Bump(a1, "matchesDrawn")

RECURSIVE EventList_foldRounds(_, _, _)
EventList_foldRounds(mapped, i, acc) ==
  IF i > Len(mapped) THEN acc
  ELSE EventList_foldRounds(mapped, i + 1, EventList_foldRound(acc, mapped[i]))

\* the rates and counts pushed to fetchedEvents, from the fold's accumulators
EventList_rates(f) ==
  [matchWinRate |-> winRate(f.matchesWon, f.totalMatches),
   gameWinRate |-> winRate(f.gamesWon, f.totalGames),
   onPlayGameWinRate |-> winRate(f.gamesWonOnPlay, f.gamesPlayedOnPlay),
   onDrawGameWinRate |-> winRate(f.gamesWonOnDraw, f.gamesPlayedOnDraw),
   gamesLost |-> f.gamesLost, gamesDrawn |-> f.gamesDrawn,
   matchesWon |-> f.matchesWon, matchesLost |-> f.matchesLost,
   matchesDrawn |-> f.matchesDrawn]

\* the object pushed to fetchedEvents
EventList_pushed(ev, mapped, f) ==
  [loaded |-> TRUE,
   wins |-> ev.wins, losses |-> ev.losses, draws |-> ev.draws,
   rounds |-> mapped] @@ EventList_rates(f)

EventList_entry_fromCounters(ev, rs) ==
  LET mapped == EventList_mapRounds(rs)
      f == EventList_foldRounds(mapped, 1, ZeroFold)
  IN  EventList_pushed(ev, mapped,
        [f EXCEPT !.matchesWon = ev.wins, !.matchesLost = ev.losses,
                  !.matchesDrawn = ev.draws])

\* the entry the onSnapshot callback builds for one event document
EventList_entry(ev, rs) ==
  LET mapped == EventList_mapRounds(rs)
  IN  EventList_pushed(ev, mapped, EventList_foldRounds(mapped, 1, ZeroFold))

\* ---- EventDetail: fetchEventDetails ----
EventDetail_roundGame(acc, game) ==
  LET a == IF game.onThePlay
           THEN IF game.result = "win" THEN Bump(acc, "onPlayWins")
                ELSE IF game.result = "loss" THEN Bump(acc, "onPlayLosses")
                ELSE IF game.result = "draw" THEN Bump(acc, "onPlayDraws")
                ELSE acc
           ELSE IF game.result = "win" THEN Bump(acc, "onDrawWins")
                ELSE IF game.result = "loss" THEN Bump(acc, "onDrawLosses")
                ELSE IF game.result = "draw" THEN Bump(acc, "onDrawDraws")
                ELSE acc
  IN  IF game.result = "win" THEN Bump(a, "playerWins")
      ELSE IF game.result = "loss" THEN Bump(a, "playerLosses")
      ELSE IF game.result = "draw" THEN Bump(a, "playerDraws")
      ELSE a

RECURSIVE EventDetail_roundGames(_, _, _)
EventDetail_roundGames(games, i, acc) ==
  IF i > Len(games) THEN acc
  ELSE EventDetail_roundGames(games, i + 1, EventDetail_roundGame(acc, games[i]))

EventDetail_outcome_tieWins(playerWins, playerLosses) ==
  IF playerWins >= playerLosses THEN "win" ELSE "loss"

EventDetail_outcome(playerWins, playerLosses) ==
  IF playerWins > playerLosses THEN "win"
  ELSE IF playerLosses > playerWins THEN "loss"
  ELSE "draw"

\* roundsSnapshot.docs.map(roundDoc => ...)
EventDetail_mapRound(id, games) ==
  LET t == EventDetail_roundGames(games, 1, ZeroRound)
  IN  [id |-> id, games |-> games,
       outcome |-> EventDetail_outcome(t.playerWins, t.playerLosses),
       roundWins |-> t.playerWins, roundLosses |-> t.playerLosses,
       roundDraws |-> t.playerDraws,
       onPlayWins |-> t.onPlayWins, onPlayLosses |-> t.onPlayLosses,
       onPlayDraws |-> t.onPlayDraws,
       onDrawWins |-> t.onDrawWins, onDrawLosses |-> t.onDrawLosses,
       onDrawDraws |-> t.onDrawDraws]

EventDetail_mapRounds(rs) ==
  LET ids == orderByCreatedAt(DOMAIN rs)
  IN  [i \in DOMAIN ids |-> EventDetail_mapRound(ids[i], rs[ids[i]])]

EventDetail_foldGame(acc, game) ==
  LET a0 == Bump(acc, "totalGames")
      a1 == IF game.result = "win" THEN Bump(Bump(a0, "gamesWon"), "playerWins")
            ELSE IF game.result = "loss" THEN Bump(Bump(a0, "gamesLost"), "playerLosses")
            ELSE IF game.result = "draw" THEN Bump(a0, "gamesDrawn")
            ELSE a0
  IN  IF game.onThePlay
      THEN IF game.result = "win"
           THEN Bump(Bump(a1, "gamesPlayedOnPlay"), "gamesWonOnPlay")
           ELSE Bump(a1, "gamesPlayedOnPlay")
      ELSE IF game.result = "win"
           THEN Bump(Bump(a1, "gamesPlayedOnDraw"), "gamesWonOnDraw")
           ELSE Bump(a1, "gamesPlayedOnDraw")

RECURSIVE EventDetail_foldGames(_, _, _)
EventDetail_foldGames(games, i, acc) ==
  IF i > Len(games) THEN acc
  ELSE EventDetail_foldGames(games, i + 1, EventDetail_foldGame(acc, games[i]))

EventDetail_foldRound(acc, round) ==
  LET a0 == [Bump(acc, "totalMatches") EXCEPT !.playerWins = 0, !.playerLosses = 0]
      a1 == EventDetail_foldGames(round.games, 1, a0)
  IN  IF a1.playerWins > a1.playerLosses THEN Bump(a1, "matchesWon")
      ELSE IF a1.playerLosses > a1.playerWins THEN Bump(a1, "matchesLost")
      ELSE Bump(a1, "matchesDrawn")

RECURSIVE EventDetail_foldRounds(_, _, _)
EventDetail_foldRounds(mapped, i, acc) ==
  IF i > Len(mapped) THEN acc
  ELSE EventDetail_foldRounds(mapped, i + 1, EventDetail_foldRound(acc, mapped[i]))

\* the rates and counts assigned to fetchedEvent, from the fold's accumulators
EventDetail_rates(f) ==
  [matchWinRate |-> winRate(f.matchesWon, f.totalMatches),
   gameWinRate |-> winRate(f.gamesWon, f.totalGames),
   onPlayGameWinRate |-> winRate(f.gamesWonOnPlay, f.gamesPlayedOnPlay),
   onDrawGameWinRate |-> winRate(f.gamesWonOnDraw, f.gamesPlayedOnDraw),
   gamesWon |-> f.gamesWon, gamesLost |-> f.gamesLost, gamesDrawn |-> f.gamesDrawn,
   matchesWon |-> f.matchesWon, matchesLost |-> f.matchesLost,
   matchesDrawn |-> f.matchesDrawn]

\* fetchedEvent as passed to setEvent
EventDetail_entry(ev, rs) ==
  LET mapped == EventDetail_mapRounds(rs)
      f == EventDetail_foldRounds(mapped, 1, ZeroFold)
  IN  [loaded |-> TRUE,
       wins |-> ev.wins, losses |-> ev.losses, draws |-> ev.draws,
       rounds |-> mapped] @@ EventDetail_rates(f)

\* ---- DeckList: onSnapshot callback ----
DeckList_tallyGame_drawLoss(acc, game) ==
  IF game.result = "win" THEN Bump(acc, "playerWins") ELSE Bump(acc, "playerLosses")

DeckList_tallyGame(acc, game) ==
  IF game.result = "win" THEN Bump(acc, "playerWins")
  ELSE IF game.result = "loss" THEN Bump(acc, "playerLosses")
  ELSE acc

RECURSIVE DeckList_tallyGames(_, _, _)
DeckList_tallyGames(games, i, acc) ==
  IF i > Len(games) THEN acc
  ELSE DeckList_tallyGames(games, i + 1, DeckList_tallyGame(acc, games[i]))

DeckList_foldGame(acc, game) ==
  LET a0 == Bump(acc, "totalGames")
      a1 == IF game.result = "win" THEN Bump(a0, "gamesWon") ELSE a0
  IN  IF game.onThePlay
      THEN IF game.result = "win"
           THEN Bump(Bump(a1, "gamesPlayedOnPlay"), "gamesWonOnPlay")
           ELSE Bump(a1, "gamesPlayedOnPlay")
      ELSE IF game.result = "win"
           THEN Bump(Bump(a1, "gamesPlayedOnDraw"), "gamesWonOnDraw")
           ELSE Bump(a1, "gamesPlayedOnDraw")

RECURSIVE DeckList_foldGames(_, _, _)
DeckList_foldGames(games, i, acc) ==
  IF i > Len(games) THEN acc
  ELSE DeckList_foldGames(games, i + 1, DeckList_foldGame(acc, games[i]))

DeckList_foldRound_carry(acc, games) ==
  LET a0 == Bump(acc, "totalMatches")
      a1 == DeckList_tallyGames(games, 1, a0)
      a2 == IF a1.playerWins > a1.playerLosses THEN Bump(a1, "matchesWon")
            ELSE IF a1.playerLosses > a1.playerWins THEN Bump(a1, "matchesLost")
            ELSE Bump(a1, "matchesDrawn")
  IN  DeckList_foldGames(games, 1, a2)

DeckList_foldRound(acc, games) ==
  LET a0 == [Bump(acc, "totalMatches") EXCEPT !.playerWins = 0, !.playerLosses = 0]
      a1 == DeckList_tallyGames(games, 1, a0)
      a2 == IF a1.playerWins > a1.playerLosses THEN Bump(a1, "matchesWon")
            ELSE IF a1.playerLosses > a1.playerWins THEN Bump(a1, "matchesLost")
            ELSE Bump(a1, "matchesDrawn")
  IN  DeckList_foldGames(games, 1, a2)

RECURSIVE DeckList_foldRounds(_, _, _, _)
DeckList_foldRounds(rs, order, i, acc) ==
  IF i > Len(order) THEN acc
  ELSE DeckList_foldRounds(rs, order, i + 1, DeckList_foldRound(acc, rs[order[i]]))

DeckList_relevant_all(deckId, ev) == ev.exists

\* eventsSnapshot.docs.filter(eventDoc => eventDoc.data().userDeckId === deckId)
DeckList_relevant(deckId, ev) == ev.exists /\ ev.userDeckId = deckId

\* for (const eventDoc of relevantEvents): evs[i] is an event document with
\* its rounds, orders[i] the order getDocs returned those rounds in
RECURSIVE DeckList_foldEvents(_, _, _, _, _)
DeckList_foldEvents(deckId, evs, orders, i, acc) ==
  IF i > Len(evs) THEN acc
  ELSE DeckList_foldEvents(deckId, evs, orders, i + 1,
         IF DeckList_relevant(deckId, evs[i].doc)
         THEN DeckList_foldRounds(evs[i].rounds, orders[i], 1, acc)
         ELSE acc)

\* the rates and counts pushed to fetchedDecks, from the fold's accumulators
DeckList_rates(f) ==
  [matchWinRate |-> winRate(f.matchesWon, f.totalMatches),
   gameWinRate |-> winRate(f.gamesWon, f.totalGames),
   onPlayGameWinRate |-> winRate(f.gamesWonOnPlay, f.gamesPlayedOnPlay),
   onDrawGameWinRate |-> winRate(f.gamesWonOnDraw, f.gamesPlayedOnDraw),
   matchesLost |-> f.matchesLost, matchesDrawn |-> f.matchesDrawn]

\* the object pushed to fetchedDecks for the deck deckId
DeckList_deckEntry(deckId, evs, orders) ==
  [loaded |-> TRUE, id |-> deckId]
    @@ DeckList_rates(DeckList_foldEvents(deckId, evs, orders, 1, ZeroFold))

\* the same object when the user has the one event ev with the rounds rs
DeckList_entry(deckId, ev, rs, order) ==
  DeckList_deckEntry(deckId, <<[doc |-> ev, rounds |-> rs]>>, <<order>>)

\* the events query, orderBy('createdAt', 'desc'): the newer events, then event
StoredEvents ==
  IF event.exists THEN others \o <<[doc |-> event, rounds |-> rounds]>> ELSE others

\* one getDocs order of the rounds for each of the events evs
RECURSIVE RoundOrders(_)
RoundOrders(evs) ==
  IF evs = <<>> THEN {<<>>}
  ELSE {<<o>> \o rest : o \in Orders(DOMAIN Head(evs).rounds),
                        rest \in RoundOrders(Tail(evs))}

\* EventList: the onSnapshot callback up to setEvents
LoadEventList ==
  /\ event.exists
  /\ listView' = EventList_entry(event, rounds)
  /\ UNCHANGED <<event, rounds, nextId, alert, error, ops, del, init0,
                 roundForm, deckForm, eventTypeFilter, callbacks, snapshots, events, decks,
                 detailView, deckView, others, totals>>

\* EventDetail: fetchEventDetails up to setEvent
LoadEventDetail ==
  /\ event.exists
  /\ detailView' = EventDetail_entry(event, rounds)
  /\ UNCHANGED <<event, rounds, nextId, alert, error, ops, del, init0,
                 roundForm, deckForm, eventTypeFilter, callbacks, snapshots, events, decks,
                 listView, deckView, others, totals>>

\* DeckList: the onSnapshot callback up to setDecks, for the deck with id 1
LoadDeckList ==
  /\ \E orders \in RoundOrders(StoredEvents) :
       deckView' = DeckList_deckEntry(1, StoredEvents, orders)
  /\ UNCHANGED <<event, rounds, nextId, alert, error, ops, del, init0,
                 roundForm, deckForm, eventTypeFilter, callbacks, snapshots, events, decks,
                 listView, detailView, others, totals>>

(***************************************************************************)
(* SpecRead: the three views load a stored event and its rounds            *)
(***************************************************************************)
FetchedGames == {Game(r, p) : r \in Results, p \in BOOLEAN}

FetchedGameSeqs == SeqsUpTo(FetchedGames, MaxReadGames)

\* round collections of at most MaxReadRounds rounds and MaxReadGames games
RECURSIVE ReadCollections(_, _)
ReadCollections(k, budget) ==
  IF k = 0 THEN {<<>>}
  ELSE LET smaller == ReadCollections(k - 1, budget)
       IN  smaller \cup
           UNION {{rs @@ (k :> g) :
                     g \in {h \in FetchedGameSeqs :
                              StoredGames(rs, DOMAIN rs) + Len(h) <= budget}} :
                  rs \in {c \in smaller : DOMAIN c = 1..(k - 1)}}

\* wins / losses / draws values an event document can hold, drift included
StoredCounterSamples ==
  {[wins |-> 0, losses |-> 0, draws |-> 0], [wins |-> -1, losses |-> 5, draws |-> 2]}

ReadInit ==
  /\ rounds \in ReadCollections(MaxReadRounds, MaxReadGames)
  /\ event \in {[NewEvent EXCEPT !.wins = c.wins, !.losses = c.losses,
                                 !.draws = c.draws, !.userDeckId = dk] :
                  c \in StoredCounterSamples, dk \in {1, 2}}
  /\ nextId = Cardinality(DOMAIN rounds) + 1
  /\ alert = NoAlert
  /\ error = NoError
  /\ ops = <<>>
  /\ del = Idle
  /\ init0 = [event |-> event, rounds |-> rounds]
  /\ ComponentsUnmounted
  /\ listView = NotLoaded
  /\ detailView = NotLoaded
  /\ deckView = NotLoaded
  /\ others = <<>>
  /\ totals = ZeroFold

ReadNext ==
  \/ LoadEventList
  \/ LoadEventDetail
  \/ LoadDeckList

SpecRead == ReadInit /\ [][ReadNext]_vars

(***************************************************************************)
(* SpecDeck: DeckList and EventList load a store holding several events    *)
(***************************************************************************)
\* an event document without the userDeckId field (a record of an old version)
NoDeckId == 0

\* an event document without the userDeck field
NoDeckName == ""

\* the deck document the DeckList entry is built for: its id and its name
Deck == [id |-> 1, name |-> "A"]

\* userDeckId / userDeck of a stored event: of this deck, of another deck,
\* and old records carrying only the deck name
EventDeckRefs ==
  {[userDeckId |-> 1, userDeck |-> NoDeckName],
   [userDeckId |-> 2, userDeck |-> NoDeckName],
   [userDeckId |-> NoDeckId, userDeck |-> "A"]}

GameCode(game) ==
  (IF game.result = "win" THEN 1 ELSE IF game.result = "loss" THEN 3 ELSE 5)
  + (IF game.onThePlay THEN 0 ELSE 1)

RECURSIVE GamesCode(_)
GamesCode(games) ==
  IF games = <<>> THEN 0 ELSE 7 * GamesCode(Tail(games)) + GameCode(Head(games))

\* round collections of at most k rounds and budget games; getDocs returns a
\* collection's rounds in any order, so one id assignment per multiset
RECURSIVE DeckCollections(_, _)
DeckCollections(k, budget) ==
  IF k = 0 THEN {<<>>}
  ELSE LET smaller == DeckCollections(k - 1, budget)
       IN  smaller \cup
           UNION {{rs @@ (k :> g) :
                     g \in {h \in SeqsUpTo(FetchedGames, budget) :
                              /\ StoredGames(rs, DOMAIN rs) + Len(h) <= budget
                              /\ k > 1 => GamesCode(rs[k - 1]) <= GamesCode(h)}} :
                  rs \in {c \in smaller : DOMAIN c = 1..(k - 1)}}

DeckRoundSets == DeckCollections(MaxDeckRounds, MaxDeckGames)

\* an event document as EventForm created it and the round writes left it
DeckEventDoc(ref, rs) ==
  CountersAfterAdding([NewEvent EXCEPT !.userDeckId = ref.userDeckId], rs, DOMAIN rs)
    @@ [userDeck |-> ref.userDeck]

\* the round collections holding g games in r rounds
DeckRoundSetsBy ==
  [g \in 0..MaxDeckGames |->
     [r \in 0..MaxDeckRounds |->
        {c \in DeckRoundSets :
           StoredGames(c, DOMAIN c) = g /\ Cardinality(DOMAIN c) = r}]]

\* stores of n events holding at most MaxDeckGames games and
\* MaxDeckTotalRounds rounds, each with its number of games and of rounds
RECURSIVE DeckStores(_)
DeckStores(n) ==
  IF n = 0 THEN {[evs |-> <<>>, games |-> 0, rounds |-> 0]}
  ELSE UNION {UNION {UNION {
         IF s.games + g <= MaxDeckGames /\ s.rounds + r <= MaxDeckTotalRounds
         THEN {[evs |-> Append(s.evs, [doc |-> DeckEventDoc(ref, rs), rounds |-> rs]),
                games |-> s.games + g, rounds |-> s.rounds + r] :
                 ref \in EventDeckRefs, rs \in DeckRoundSetsBy[g][r]}
         ELSE {} :
           r \in 0..MaxDeckRounds} : g \in 0..MaxDeckGames} : s \in DeckStores(n - 1)}

DeckInit ==
  /\ \E n \in 0..(MaxDeckEvents - 1) :
       \E s \in DeckStores(n) :
         \E ref \in EventDeckRefs, rs \in DeckRoundSets :
           /\ s.games + StoredGames(rs, DOMAIN rs) <= MaxDeckGames
           /\ s.rounds + Cardinality(DOMAIN rs) <= MaxDeckTotalRounds
           /\ others = s.evs
           /\ event = DeckEventDoc(ref, rs)
           /\ rounds = rs
  /\ nextId = Cardinality(DOMAIN rounds) + 1
  /\ alert = NoAlert
  /\ error = NoError
  /\ ops = <<>>
  /\ del = Idle
  /\ init0 = [event |-> event, rounds |-> rounds]
  /\ ComponentsUnmounted
  /\ listView = NotLoaded
  /\ detailView = NotLoaded
  /\ deckView = NotLoaded
  /\ totals = ZeroFold

DeckNext ==
  \/ LoadDeckList
  \/ LoadEventList

SpecDeck == DeckInit /\ [][DeckNext]_vars

(***************************************************************************)
(* SpecRate: the rate stage of the three views on a finished fold          *)
(***************************************************************************)
\* the rounds of an event of d single-game rounds, the first n won and the
\* others lost, all played on the play (p) or all on the draw
RateRounds(n, d, p) ==
  [i \in 1..d |-> <<Game(IF i <= n THEN "win" ELSE "loss", p)>>]

\* the accumulators the folds end with over RateRounds(n, d, p)
RateTotals(n, d, p) ==
  [totalMatches |-> d, matchesWon |-> n, matchesLost |-> d - n, matchesDrawn |-> 0,
   totalGames |-> d, gamesWon |-> n, gamesLost |-> d - n, gamesDrawn |-> 0,
   gamesPlayedOnPlay |-> IF p THEN d ELSE 0, gamesWonOnPlay |-> IF p THEN n ELSE 0,
   gamesPlayedOnDraw |-> IF p THEN 0 ELSE d, gamesWonOnDraw |-> IF p THEN 0 ELSE n,
   playerWins |-> IF d > 0 /\ n = d THEN 1 ELSE 0,
   playerLosses |-> IF d > n THEN 1 ELSE 0]

RateInit ==
  /\ \E d \in 0..MaxRateGames, p \in BOOLEAN :
       \E n \in 0..d :
         /\ rounds = RateRounds(n, d, p)
         /\ totals = RateTotals(n, d, p)
         /\ event = [NewEvent EXCEPT !.wins = n, !.losses = d - n]
  /\ nextId = Cardinality(DOMAIN rounds) + 1
  /\ alert = NoAlert
  /\ error = NoError
  /\ ops = <<>>
  /\ del = Idle
  /\ init0 = [event |-> event, rounds |-> rounds]
  /\ ComponentsUnmounted
  /\ listView = NotLoaded
  /\ detailView = NotLoaded
  /\ deckView = NotLoaded
  /\ others = <<>>

\* EventList: the rates and counts of the pushed entry
RatesEventList ==
  /\ listView' = [loaded |-> TRUE] @@ EventList_rates(totals)
  /\ UNCHANGED <<event, rounds, nextId, alert, error, ops, del, init0,
                 roundForm, deckForm, eventTypeFilter, callbacks, snapshots, events, decks,
                 detailView, deckView, others, totals>>

\* EventDetail: the rates and counts of fetchedEvent
RatesEventDetail ==
  /\ detailView' = [loaded |-> TRUE] @@ EventDetail_rates(totals)
  /\ UNCHANGED <<event, rounds, nextId, alert, error, ops, del, init0,
                 roundForm, deckForm, eventTypeFilter, callbacks, snapshots, events, decks,
                 listView, deckView, others, totals>>

\* DeckList: the rates and counts of the pushed deck
RatesDeckList ==
  /\ deckView' = [loaded |-> TRUE, id |-> Deck.id] @@ DeckList_rates(totals)
  /\ UNCHANGED <<event, rounds, nextId, alert, error, ops, del, init0,
                 roundForm, deckForm, eventTypeFilter, callbacks, snapshots, events, decks,
                 listView, detailView, others, totals>>

RateNext ==
  \/ RatesEventList
  \/ RatesEventDetail
  \/ RatesDeckList

SpecRate == RateInit /\ [][RateNext]_vars

(***************************************************************************)
(* SpecFail: one round mutation whose storage writes may be rejected,      *)
(* and the event views reloading                                           *)
(***************************************************************************)
AlertRoundDeleteFailed == "Error deleting round"

\* first await rejects (the store returns an error): the catch block
RoundWriteReject(c) ==
  /\ ops[c].pc = "round"
  /\ ops' = [ops EXCEPT ![c] = caught(@)]
  /\ error' = IF ops[c].kind = "delete" THEN error ELSE ErrStorage
  /\ alert' = IF ops[c].kind = "delete" THEN AlertRoundDeleteFailed ELSE alert
  /\ UNCHANGED <<event, rounds, nextId>>

CounterWriteReject_silent(c) ==
  /\ ops[c].pc = "counter"
  /\ ops' = [ops EXCEPT ![c] = caught(@)]
  /\ UNCHANGED <<event, rounds, nextId, error, alert>>

\* second await rejects (the store returns an error): the catch block
CounterWriteReject(c) ==
  /\ ops[c].pc = "counter"
  /\ ops' = [ops EXCEPT ![c] = caught(@)]
  /\ error' = IF ops[c].kind = "delete" THEN error ELSE ErrStorage
  /\ alert' = IF ops[c].kind = "delete" THEN AlertRoundDeleteFailed ELSE alert
  /\ UNCHANGED <<event, rounds, nextId>>

FailInit ==
  /\ rounds \in {(1 :> g) : g \in ConcInitGameSeqs}
  /\ event = CountersAfterAdding(NewEvent, rounds, DOMAIN rounds)
  /\ nextId = 2
  /\ alert = NoAlert
  /\ error = NoError
  /\ ops = [c \in {1} |-> Idle]
  /\ del = Idle
  /\ init0 = [event |-> event, rounds |-> rounds]
  /\ ComponentsUnmounted
  /\ listView = NotLoaded
  /\ detailView = NotLoaded
  /\ deckView = NotLoaded
  /\ others = <<>>
  /\ totals = ZeroFold

FailNext ==
  \/ \E games \in ConcGameSeqs : BeginAdd(1, games) /\ UnusedInConc
  \/ \E rid \in DOMAIN rounds, games \in ConcGameSeqs :
       BeginEdit(1, rid, games) /\ UnusedInConc
  \/ \E rid \in DOMAIN rounds : BeginDelete(1, rid) /\ UnusedInConc
  \/ RoundWrite(1) /\ UnusedInConc
  \/ RoundWriteReject(1) /\ UnusedInConc
  \/ CounterWrite(1) /\ UnusedInConc
  \/ CounterWriteReject(1) /\ UnusedInConc
  \/ LoadEventList
  \/ LoadEventDetail

SpecFail == FailInit /\ [][FailNext]_vars

(***************************************************************************)
(* SpecInvalid: the three views load a round holding any result string     *)
(***************************************************************************)
\* a result string that is none of 'win', 'loss', 'draw'
OtherResult == "other"

\* games as a round document can hold them: result is a string
StoredAnyGames == {Game(r, p) : r \in Results \cup {OtherResult}, p \in BOOLEAN}

InvalidInit ==
  /\ rounds \in {(1 :> g) : g \in SeqsUpTo(StoredAnyGames, MaxInvalidGames)}
  /\ event = NewEvent
  /\ nextId = 2
  /\ alert = NoAlert
  /\ error = NoError
  /\ ops = <<>>
  /\ del = Idle
  /\ init0 = [event |-> event, rounds |-> rounds]
  /\ ComponentsUnmounted
  /\ listView = NotLoaded
  /\ detailView = NotLoaded
  /\ deckView = NotLoaded
  /\ others = <<>>
  /\ totals = ZeroFold

SpecInvalid == InvalidInit /\ [][ReadNext]_vars

(***************************************************************************)
(* SpecTally: the counter updates of the write path applied to any game    *)
(* list, the empty one included                                            *)
(***************************************************************************)
\* handleSubmit, add branch: the increments sent for the submitted games
addCounterUpdate(ev, games) ==
  LET cur == currentRoundTally(games)
  IN  updateEventCounters(ev, cur.wins, cur.losses, cur.draws)

\* handleSubmit, edit branch: the increments sent for games over roundData
editCounterUpdate(ev, roundData, games) ==
  LET cur == currentRoundTally(games)
      prev == previousRoundTally(roundData)
  IN  updateEventCounters(ev, cur.wins - prev.wins, cur.losses - prev.losses,
                          cur.draws - prev.draws)

\* handleDeleteRound: the increments sent for the deleted round's games
deleteCounterUpdate(ev, games) ==
  LET t == deleteRoundTally(games)
  IN  updateEventCounters(ev, -t.wins, -t.losses, -t.draws)

TallyCounters == 0..MaxTallyCounter

\* rounds[1] holds the game list the update is applied for
TallyInit ==
  /\ event \in {[NewEvent EXCEPT !.wins = w, !.losses = l, !.draws = d] :
                  w \in TallyCounters, l \in TallyCounters, d \in TallyCounters}
  /\ rounds \in {(1 :> g) : g \in InputGameSeqs}
  /\ nextId = 2
  /\ alert = NoAlert
  /\ error = NoError
  /\ ops = <<>>
  /\ del = Idle
  /\ init0 = [event |-> event, rounds |-> rounds]
  /\ ComponentsUnmounted
  /\ listView = NotLoaded
  /\ detailView = NotLoaded
  /\ deckView = NotLoaded
  /\ others = <<>>
  /\ totals = ZeroFold

ApplyAddUpdate ==
  /\ alert = NoAlert
  /\ event' = addCounterUpdate(event, rounds[1])
  /\ alert' = AlertAdded
  /\ UNCHANGED <<rounds, nextId, error>>

ApplyEditUpdate(games) ==
  /\ alert = NoAlert
  /\ event' = editCounterUpdate(event, rounds[1], games)
  /\ rounds' = updateRoundDoc(rounds, 1, games)
  /\ alert' = AlertUpdated
  /\ UNCHANGED <<nextId, error>>

ApplyDeleteUpdate ==
  /\ alert = NoAlert
  /\ event' = deleteCounterUpdate(event, rounds[1])
  /\ alert' = AlertDeleted
  /\ UNCHANGED <<rounds, nextId, error>>

TallyNext ==
  \/ ApplyAddUpdate /\ UnusedInSpec
  \/ \E games \in InputGameSeqs : ApplyEditUpdate(games) /\ UnusedInSpec
  \/ ApplyDeleteUpdate /\ UnusedInSpec

SpecTally == TallyInit /\ [][TallyNext]_vars

(***************************************************************************)
(* SpecForm: the round form edited game by game and submitted, and the     *)
(* event edited through the event form                                     *)
(***************************************************************************)
\* the cap of handleAddGame for a Tournament event
TournamentMaxGames == 3

\* the game handleAddGame appends
DefaultGame == Game("win", TRUE)

handleAddGame_inclusive(eventType, games) ==
  IF eventType = "Tournament" /\ Len(games) > TournamentMaxGames
    THEN [games |-> games, error |-> ErrMaxGames]
    ELSE [games |-> Append(games, DefaultGame), error |-> NoError]

\* RoundForm.handleAddGame: maxGames is 3 for a Tournament, Infinity otherwise
handleAddGame(eventType, games) ==
  IF eventType = "Tournament" /\ ~(Len(games) < TournamentMaxGames)
    THEN [games |-> games, error |-> ErrMaxGames]
    ELSE [games |-> Append(games, DefaultGame), error |-> NoError]

\* RoundForm.handleGameChange
handleGameChange(games, index, field, value) ==
  [games EXCEPT ![index] = [f \in DOMAIN @ |-> IF f = field THEN value ELSE @[f]]]

\* RoundForm.handleRemoveGame
handleRemoveGame(games, index) ==
  [i \in 1..(Len(games) - 1) |-> IF i < index THEN games[i] ELSE games[i + 1]]

\* the ink names offered by the forms, in the order of string comparison
InkNames == <<"Amber", "Emerald", "Ruby", "Steel">>

InkRank(inkName) == CHOOSE i \in DOMAIN InkNames : InkNames[i] = inkName

\* Array.prototype.sort on a list of ink names
sortInks(inks) == SortSeq(inks, LAMBDA a, b : InkRank(a) < InkRank(b))

\* RoundForm.handleInkColorToggle: the new opponentInkColors and error
handleInkColorToggle(prevColors, inkName) ==
  IF \E i \in DOMAIN prevColors : prevColors[i] = inkName
    THEN [colors |-> sortInks(SelectSeq(prevColors, LAMBDA c : c # inkName)),
          error |-> NoError]
    ELSE IF Len(prevColors) < 2
           THEN [colors |-> sortInks(Append(prevColors, inkName)), error |-> NoError]
           ELSE [colors |-> prevColors, error |-> ErrMaxInks]

\* the fields EventForm.handleSubmit sends on an update
EventData(name, type, ev) ==
  [name |-> name, type |-> type, userDeckId |-> ev.userDeckId,
   userDeckName |-> ev.userDeckName, startDate |-> ev.startDate, format |-> ev.format]

updateEvent_asCreated(ev, eventData) ==
  [f \in DOMAIN ev |->
     IF f \in DOMAIN eventData THEN eventData[f]
     ELSE IF f \in {"wins", "losses", "draws"} THEN 0 ELSE ev[f]]

\* updateEvent: updateDoc sets the fields of eventData and leaves the others
updateEvent(ev, eventData) ==
  [f \in DOMAIN ev |-> IF f \in DOMAIN eventData THEN eventData[f] ELSE ev[f]]

\* EventForm.handleSubmit, create branch, with the fields of the form
CreatedEvent(type) ==
  [exists |-> TRUE, wins |-> 0, losses |-> 0, draws |-> 0, userDeckId |-> 1,
   name |-> "E", type |-> type, userDeckName |-> "A", startDate |-> 1,
   format |-> "Infinity", createdAt |-> 1]

AlertEventUpdated == "Event updated successfully!"

EventNames == {"E", "F"}

FormInit ==
  /\ event \in {CreatedEvent(t) : t \in EventTypes}
  /\ rounds = <<>>
  /\ nextId = 1
  /\ alert = NoAlert
  /\ error = NoError
  /\ ops = <<>>
  /\ del = Idle
  /\ init0 = [event |-> event, rounds |-> <<>>]
  /\ ComponentsUnmounted
  /\ listView = NotLoaded
  /\ detailView = NotLoaded
  /\ deckView = NotLoaded
  /\ others = <<>>
  /\ totals = ZeroFold

UnusedInForm ==
  UNCHANGED <<ops, del, init0, listView, detailView, deckView, others, totals,
              deckForm, eventTypeFilter, callbacks, snapshots,
              events, decks>>

\* "Add Round" on the event's card: the modal renders RoundForm without roundData
OpenAddRound ==
  /\ ~roundForm.open
  /\ roundForm' = [open |-> TRUE, eventType |-> event.type, roundId |-> NoRound,
                   opponentInkColors |-> <<>>, games |-> <<>>]
  /\ error' = NoError
  /\ UNCHANGED <<event, rounds, nextId, alert>>

\* EventList.handleEditRound: RoundForm's useEffect copies roundData
OpenEditRound(rid) ==
  /\ ~roundForm.open
  /\ rid \in DOMAIN rounds
  /\ roundForm' = [open |-> TRUE, eventType |-> event.type, roundId |-> rid,
                   opponentInkColors |-> <<"Amber">>, games |-> rounds[rid]]
  /\ error' = NoError
  /\ UNCHANGED <<event, rounds, nextId, alert>>

\* the modal's onClose
CloseRoundForm ==
  /\ roundForm.open
  /\ roundForm' = ClosedRoundForm
  /\ UNCHANGED <<event, rounds, nextId, alert, error>>

AddGame ==
  /\ roundForm.open
  /\ Len(roundForm.games) < MaxFormGames
  /\ LET r == handleAddGame(roundForm.eventType, roundForm.games)
     IN  /\ roundForm' = [roundForm EXCEPT !.games = r.games]
         /\ error' = r.error
  /\ UNCHANGED <<event, rounds, nextId, alert>>

ChangeGame(index, field, value) ==
  /\ roundForm.open
  /\ index \in DOMAIN roundForm.games
  /\ roundForm' = [roundForm EXCEPT
                     !.games = handleGameChange(@, index, field, value)]
  /\ UNCHANGED <<event, rounds, nextId, alert, error>>

RemoveGame(index) ==
  /\ roundForm.open
  /\ index \in DOMAIN roundForm.games
  /\ roundForm' = [roundForm EXCEPT !.games = handleRemoveGame(@, index)]
  /\ error' = NoError
  /\ UNCHANGED <<event, rounds, nextId, alert>>

ToggleInk(inkName) ==
  /\ roundForm.open
  /\ LET r == handleInkColorToggle(roundForm.opponentInkColors, inkName)
     IN  /\ roundForm' = [roundForm EXCEPT !.opponentInkColors = r.colors]
         /\ error' = r.error
  /\ UNCHANGED <<event, rounds, nextId, alert>>

\* RoundForm.handleSubmit on the form as it stands; handleRoundAdded closes
\* the modal after a successful submit
SubmitRoundForm ==
  /\ roundForm.open
  /\ \/ /\ SubmitRejected(roundForm.opponentInkColors, roundForm.games)
        /\ UNCHANGED roundForm
     \/ /\ roundForm.roundId = NoRound
        /\ nextId <= MaxFormRounds
        /\ SubmitAdd(roundForm.opponentInkColors, roundForm.games)
        /\ roundForm' = ClosedRoundForm
     \/ /\ roundForm.roundId # NoRound
        /\ SubmitEdit(roundForm.roundId, roundForm.opponentInkColors, roundForm.games)
        /\ roundForm' = ClosedRoundForm

\* EventForm.handleSubmit with eventToEdit; the round form's modal covers the
\* page while it is open
EditEvent(name, type) ==
  /\ ~roundForm.open
  /\ event.exists
  /\ event' = updateEvent(event, EventData(name, type, event))
  /\ alert' = AlertEventUpdated
  /\ UNCHANGED <<rounds, nextId, error, roundForm>>

\* the results picked in a game row's select in SpecForm
FormChangeResults == {"loss"}

\* the select and the checkbox of a game row
GameChanges ==
  {[field |-> "result", value |-> r] : r \in FormChangeResults}
    \cup {[field |-> "onThePlay", value |-> p] : p \in FormOnThePlay}

FormNext ==
  \/ OpenAddRound /\ UnusedInForm
  \/ \E rid \in DOMAIN rounds : OpenEditRound(rid) /\ UnusedInForm
  \/ CloseRoundForm /\ UnusedInForm
  \/ AddGame /\ UnusedInForm
  \/ \E i \in 1..MaxFormGames, c \in GameChanges :
       ChangeGame(i, c.field, c.value) /\ UnusedInForm
  \/ \E i \in 1..MaxFormGames : RemoveGame(i) /\ UnusedInForm
  \/ ToggleInk("Amber") /\ UnusedInForm
  \/ SubmitRoundForm /\ UnusedInForm
  \/ \E n \in EventNames, t \in EventTypes : EditEvent(n, t) /\ UnusedInForm

SpecForm == FormInit /\ [][FormNext]_vars

(***************************************************************************)
(* SpecInk: the ink colour selections of the round form and the deck form  *)
(***************************************************************************)
\* DeckForm.handleInkColorToggle: the new selectedInkColors and error
DeckForm_handleInkColorToggle(prevColors, inkName) ==
  IF \E i \in DOMAIN prevColors : prevColors[i] = inkName
    THEN [colors |-> sortInks(SelectSeq(prevColors, LAMBDA c : c # inkName)),
          error |-> NoError]
    ELSE IF Len(prevColors) < 2
           THEN [colors |-> prevColors, error |-> ErrMaxInks]
           ELSE [colors |-> sortInks(Append(prevColors, inkName)), error |-> NoError]

\* DeckForm.handleSubmit: the checks before the try block
DeckForm_validate(form) ==
  IF form.name = "" THEN ErrNoDeckName
  ELSE IF Len(form.selectedInkColors) = 0 THEN ErrNoDeckInk
  ELSE NoError

DeckNames == {"", "A"}

InkInit ==
  /\ event = CreatedEvent("Tournament")
  /\ rounds = <<>>
  /\ nextId = 1
  /\ alert = NoAlert
  /\ error = NoError
  /\ ops = <<>>
  /\ del = Idle
  /\ init0 = [event |-> event, rounds |-> <<>>]
  /\ ComponentsUnmounted
  /\ listView = NotLoaded
  /\ detailView = NotLoaded
  /\ deckView = NotLoaded
  /\ others = <<>>
  /\ totals = ZeroFold

UnusedInDeckForm ==
  UNCHANGED <<event, rounds, nextId, alert, error, ops, del, init0, listView,
              detailView, deckView, others, totals, roundForm, eventTypeFilter,
              callbacks, snapshots, events, decks>>

\* the name input's onChange
DeckSetName(name) ==
  /\ deckForm' = [deckForm EXCEPT !.name = name]
  /\ UnusedInDeckForm

DeckToggleInk(inkName) ==
  /\ LET r == DeckForm_handleInkColorToggle(deckForm.selectedInkColors, inkName)
     IN  deckForm' = [deckForm EXCEPT !.selectedInkColors = r.colors, !.error = r.error]
  /\ UnusedInDeckForm

\* DeckForm.handleSubmit with addDoc succeeding
DeckSubmit ==
  /\ deckForm.added < 1
  /\ deckForm' =
       IF DeckForm_validate(deckForm) # NoError
         THEN [deckForm EXCEPT !.error = DeckForm_validate(deckForm)]
         ELSE [EmptyDeckForm EXCEPT !.added = deckForm.added + 1]
  /\ UnusedInDeckForm

InkNext ==
  \/ OpenAddRound /\ UnusedInForm
  \/ CloseRoundForm /\ UnusedInForm
  \/ \E i \in DOMAIN InkNames : ToggleInk(InkNames[i]) /\ UnusedInForm
  \/ \E n \in DeckNames : DeckSetName(n)
  \/ \E i \in DOMAIN InkNames : DeckToggleInk(InkNames[i])
  \/ DeckSubmit

SpecInk == InkInit /\ [][InkNext]_vars

(***************************************************************************)
(* SpecList: the onSnapshot callbacks of EventList and DeckList, each      *)
(* document's async map callback finishing in any order                    *)
(***************************************************************************)
\* the radio buttons of the event type filter
Filters == {"all", "Playtest", "Tournament"}

\* the user's event documents by id; a smaller id has the later startDate
EventDocIds == 1..MaxListEvents

\* the user's deck documents by id; a smaller id has the later createdAt
DeckDocIds == 1..MaxListDecks

\* ids in increasing order, as a sequence
RECURSIVE inOrder(_)
inOrder(ids) ==
  IF ids = {} THEN <<>>
  ELSE LET m == CHOOSE x \in ids : \A y \in ids : x <= y
       IN  <<m>> \o inOrder(ids \ {m})

\* the event query: where('type', '==', filter) unless 'all', orderBy startDate desc
eventsQuery(types, filter) ==
  inOrder({id \in EventDocIds : filter = "all" \/ types[id] = filter})

\* the deck query: orderBy createdAt desc
decksQuery == inOrder(DeckDocIds)

\* an onSnapshot callback at its start: fetchedEvents / fetchedDecks is empty
Callback(list, filter, docs, serial) ==
  [list |-> list, filter |-> filter, docs |-> docs, snapshot |-> serial,
   fetched |-> <<>>]

\* the documents whose map callback has not pushed yet
Pending(cb) ==
  {cb.docs[i] : i \in DOMAIN cb.docs} \ {cb.fetched[i] : i \in DOMAIN cb.fetched}

\* others[id] holds the type of event document id in this specification
ListInit ==
  /\ others \in [EventDocIds -> EventTypes]
  /\ eventTypeFilter = "all"
  /\ snapshots = [events |-> 1, decks |-> 1]
  /\ callbacks = {Callback("events", "all", eventsQuery(others, "all"), 1),
                  Callback("decks", "all", decksQuery, 1)}
  /\ events = NothingShown
  /\ decks = NothingShown
  /\ roundForm = ClosedRoundForm
  /\ deckForm = EmptyDeckForm
  /\ event = NewEvent
  /\ rounds = <<>>
  /\ nextId = 1
  /\ alert = NoAlert
  /\ error = NoError
  /\ ops = <<>>
  /\ del = Idle
  /\ init0 = [event |-> NewEvent, rounds |-> <<>>]
  /\ listView = NotLoaded
  /\ detailView = NotLoaded
  /\ deckView = NotLoaded
  /\ totals = ZeroFold

UnusedInList ==
  UNCHANGED <<event, rounds, nextId, alert, error, ops, del, init0, listView,
              detailView, deckView, others, totals, roundForm, deckForm>>

\* a filter radio button: the effect's cleanup unsubscribes, the effect
\* subscribes to the new query and the listener's first snapshot starts a
\* callback
SetFilter(filter) ==
  /\ filter # eventTypeFilter
  /\ snapshots.events < MaxSnapshots
  /\ eventTypeFilter' = filter
  /\ snapshots' = [snapshots EXCEPT !.events = @ + 1]
  /\ callbacks' = callbacks \cup
       {Callback("events", filter, eventsQuery(others, filter), snapshots.events + 1)}
  /\ UNCHANGED <<events, decks>>

\* a write to an event document: the event listener delivers a new snapshot
EventsSnapshot ==
  /\ snapshots.events < MaxSnapshots
  /\ snapshots' = [snapshots EXCEPT !.events = @ + 1]
  /\ callbacks' = callbacks \cup
       {Callback("events", eventTypeFilter, eventsQuery(others, eventTypeFilter),
                 snapshots.events + 1)}
  /\ UNCHANGED <<eventTypeFilter, events, decks>>

\* a write to a deck document: the deck listener delivers a new snapshot
DecksSnapshot ==
  /\ snapshots.decks < MaxSnapshots
  /\ snapshots' = [snapshots EXCEPT !.decks = @ + 1]
  /\ callbacks' = callbacks \cup
       {Callback("decks", "all", decksQuery, snapshots.decks + 1)}
  /\ UNCHANGED <<eventTypeFilter, events, decks>>

\* fetchedEvents.push / fetchedDecks.push at the end of a map callback
pushed(cb, id) == [cb EXCEPT !.fetched = Append(@, id)]

\* one document's map callback gets past its awaits and pushes its entry
Push(cb, id) ==
  /\ cb \in callbacks
  /\ id \in Pending(cb)
  /\ callbacks' = (callbacks \ {cb}) \cup {pushed(cb, id)}
  /\ UNCHANGED <<eventTypeFilter, snapshots, events, decks>>

\* Promise.all resolves: setEvents(fetchedEvents) / setDecks(fetchedDecks)
Settle(cb) ==
  /\ cb \in callbacks
  /\ Pending(cb) = {}
  /\ callbacks' = callbacks \ {cb}
  /\ IF cb.list = "events"
       THEN /\ events' = [ids |-> cb.fetched, snapshot |-> cb.snapshot]
            /\ UNCHANGED decks
       ELSE /\ decks' = [ids |-> cb.fetched, snapshot |-> cb.snapshot]
            /\ UNCHANGED events
  /\ UNCHANGED <<eventTypeFilter, snapshots>>

ListNext ==
  \/ \E filter \in Filters : SetFilter(filter) /\ UnusedInList
  \/ EventsSnapshot /\ UnusedInList
  \/ DecksSnapshot /\ UnusedInList
  \/ \E cb \in callbacks, id \in EventDocIds \cup DeckDocIds : Push(cb, id) /\ UnusedInList
  \/ \E cb \in callbacks : Settle(cb) /\ UnusedInList

SpecList == ListInit /\ [][ListNext]_vars

(***************************************************************************)
(* Reference counts the claims are stated with                             *)
(***************************************************************************)
NumGames(games, r) == Cardinality({i \in DOMAIN games : games[i].result = r})

OutcomeOf(games) ==
  IF NumGames(games, "win") > NumGames(games, "loss") THEN "win"
  ELSE IF NumGames(games, "loss") > NumGames(games, "win") THEN "loss"
  ELSE "draw"

RECURSIVE SumGames(_, _, _)
SumGames(rs, ids, r) ==
  IF ids = {} THEN 0
  ELSE LET id == CHOOSE x \in ids : TRUE
       IN  NumGames(rs[id], r) + SumGames(rs, ids \ {id}, r)

TotalGames(rs, r) == SumGames(rs, DOMAIN rs, r)

NumRounds(rs, o) == Cardinality({id \in DOMAIN rs : OutcomeOf(rs[id]) = o})

Counters(ev) == [wins |-> ev.wins, losses |-> ev.losses, draws |-> ev.draws]

RoundCounts(rs) ==
  [wins |-> NumRounds(rs, "win"), losses |-> NumRounds(rs, "loss"),
   draws |-> NumRounds(rs, "draw")]

GameCounts(rs) ==
  [wins |-> TotalGames(rs, "win"), losses |-> TotalGames(rs, "loss"),
   draws |-> TotalGames(rs, "draw")]

GameTally(games) ==
  [wins |-> NumGames(games, "win"), losses |-> NumGames(games, "loss"),
   draws |-> NumGames(games, "draw")]

OutcomeTally(games) ==
  [wins |-> IF OutcomeOf(games) = "win" THEN 1 ELSE 0,
   losses |-> IF OutcomeOf(games) = "loss" THEN 1 ELSE 0,
   draws |-> IF OutcomeOf(games) = "draw" THEN 1 ELSE 0]

Diff(a, b) ==
  [wins |-> a.wins - b.wins, losses |-> a.losses - b.losses, draws |-> a.draws - b.draws]

W == Game("win", TRUE)
L == Game("loss", TRUE)
D == Game("draw", TRUE)

\* the round an edit step changed (an edit to the same games changes none)
EditedIds == {id \in DOMAIN rounds : rounds'[id] # rounds[id]}

C6_AddDeleteRoundTrip ==
  alert = AlertDeleted
    => /\ Counters(event) = Counters(init0.event)
       /\ rounds = init0.rounds

C6_Witness ==
  /\ alert = AlertDeleted
  /\ nextId = 3
  /\ init0.rounds = (1 :> <<W, L>>)
  /\ Counters(init0.event) = [wins |-> -1, losses |-> 1, draws |-> 0]
  /\ Counters(event) = Counters(init0.event)

(***************************************************************************)
(* C7                                                                      *)
(***************************************************************************)
\* the change a mutation makes to the counters, from its own inputs
DeltaOf(op) ==
  CASE op.kind = "add" -> GameTally(op.games)
    [] op.kind = "edit" -> Diff(GameTally(op.games), GameTally(op.roundData))
    [] op.kind = "delete" -> Diff(ZeroTally, GameTally(op.games))

AppliedDelta(c) == IF ops[c].pc = "done" THEN DeltaOf(ops[c]) ELSE ZeroTally

\* C7: when two round mutations on the same event have interleaved their
\* storage writes in any order and both have finished, the stored counters
\* equal the initial counters plus the sum of the deltas of the mutations
\* that completed (no lost update).
C7_NoLostUpdate ==
  (\A c \in Clients : ops[c].pc \in {"done", "failed"})
    => /\ event.wins = init0.event.wins + AppliedDelta(1).wins + AppliedDelta(2).wins
       /\ event.losses = init0.event.losses + AppliedDelta(1).losses + AppliedDelta(2).losses
       /\ event.draws = init0.event.draws + AppliedDelta(1).draws + AppliedDelta(2).draws

C7_Witness ==
  /\ ops[1].pc = "done" /\ ops[2].pc = "done"
  /\ ops[1].kind = "edit" /\ ops[2].kind = "add"
  /\ ops[1].seen = ops[2].seen
  /\ DeltaOf(ops[1]).losses = 2 /\ DeltaOf(ops[2]).losses = 1
  /\ event.losses = init0.event.losses + 3

(***************************************************************************)
(* C8                                                                      *)
(***************************************************************************)
\* C8: in every state in which deleteEvent has returned or thrown, also when
\* a storage write failed partway or a round was added while it ran, either
\* the event and all of the rounds it had are still present, or the event and
\* all rounds under it are gone.
C8_AtomicCascade ==
  del.pc \in {"done", "failed"}
    => \/ event.exists /\ del.snapshot \subseteq DOMAIN rounds
       \/ ~event.exists /\ DOMAIN rounds = {}

(***************************************************************************)
(* C9                                                                      *)
(***************************************************************************)
NumPlay(games, r, p) ==
  Cardinality({i \in DOMAIN games : games[i].result = r /\ games[i].onThePlay = p})

\* what C9 requires of one derived round
DerivedRight(m) ==
  /\ m.roundWins = NumGames(m.games, "win")
  /\ m.roundLosses = NumGames(m.games, "loss")
  /\ m.roundDraws = NumGames(m.games, "draw")
  /\ m.onPlayWins = NumPlay(m.games, "win", TRUE)
  /\ m.onPlayLosses = NumPlay(m.games, "loss", TRUE)
  /\ m.onPlayDraws = NumPlay(m.games, "draw", TRUE)
  /\ m.onDrawWins = NumPlay(m.games, "win", FALSE)
  /\ m.onDrawLosses = NumPlay(m.games, "loss", FALSE)
  /\ m.onDrawDraws = NumPlay(m.games, "draw", FALSE)
  /\ (m.outcome = "win") = (m.roundWins > m.roundLosses)
  /\ (m.outcome = "loss") = (m.roundLosses > m.roundWins)
  /\ (m.outcome = "draw") = (m.roundWins = m.roundLosses)
  /\ m.games = <<>>
       => /\ m.outcome = "draw"
          /\ m.roundWins = 0 /\ m.roundLosses = 0 /\ m.roundDraws = 0
          /\ m.onPlayWins = 0 /\ m.onPlayLosses = 0 /\ m.onPlayDraws = 0
          /\ m.onDrawWins = 0 /\ m.onDrawLosses = 0 /\ m.onDrawDraws = 0
  /\ m.games = <<Game("win", TRUE), Game("win", FALSE), Game("loss", TRUE)>>
       => /\ m.outcome = "win"
          /\ m.roundWins = 2 /\ m.roundLosses = 1
          /\ m.onPlayWins = 1 /\ m.onPlayLosses = 1 /\ m.onDrawWins = 1

\* C9: every round as derived by the event list and by the event detail has
\* roundWins / roundLosses / roundDraws equal to the number of its games with
\* that result, each on-play and on-draw bucket equal to the number of games
\* with that result and that onThePlay value, and outcome win iff wins >
\* losses, loss iff losses > wins, draw otherwise (empty: draw, all counts 0;
\* [win(onPlay), win(onDraw), loss(onPlay)]: win, 2 wins, 1 loss, 1/1/1).
C9_RoundDerivation ==
  /\ listView.loaded
       => /\ Len(listView.rounds) = Cardinality(DOMAIN rounds)
          /\ \A i \in DOMAIN listView.rounds :
               /\ listView.rounds[i].games = rounds[listView.rounds[i].id]
               /\ DerivedRight(listView.rounds[i])
  /\ detailView.loaded
       => /\ Len(detailView.rounds) = Cardinality(DOMAIN rounds)
          /\ \A i \in DOMAIN detailView.rounds :
               /\ detailView.rounds[i].games = rounds[detailView.rounds[i].id]
               /\ DerivedRight(detailView.rounds[i])

C9_Witness ==
  /\ listView.loaded /\ detailView.loaded
  /\ rounds = (1 :> <<Game("win", TRUE), Game("win", FALSE), Game("loss", TRUE)>>)
  /\ listView.rounds[1].outcome = "win"
  /\ detailView.rounds[1].onDrawWins = 1

(***************************************************************************)
(* C10                                                                     *)
(***************************************************************************)
ListStats(v) ==
  [matchesWon |-> v.matchesWon, matchesLost |-> v.matchesLost,
   matchesDrawn |-> v.matchesDrawn,
   gamesLost |-> v.gamesLost, gamesDrawn |-> v.gamesDrawn,
   matchWinRate |-> v.matchWinRate, gameWinRate |-> v.gameWinRate,
   onPlayGameWinRate |-> v.onPlayGameWinRate,
   onDrawGameWinRate |-> v.onDrawGameWinRate]

DetailStats(v) ==
  [matchesWon |-> v.matchesWon, matchesLost |-> v.matchesLost,
   matchesDrawn |-> v.matchesDrawn,
   gamesWon |-> v.gamesWon, gamesLost |-> v.gamesLost, gamesDrawn |-> v.gamesDrawn,
   matchWinRate |-> v.matchWinRate, gameWinRate |-> v.gameWinRate,
   onPlayGameWinRate |-> v.onPlayGameWinRate,
   onDrawGameWinRate |-> v.onDrawGameWinRate]

DeckStats(v) ==
  [matchesLost |-> v.matchesLost, matchesDrawn |-> v.matchesDrawn,
   matchWinRate |-> v.matchWinRate, gameWinRate |-> v.gameWinRate,
   onPlayGameWinRate |-> v.onPlayGameWinRate,
   onDrawGameWinRate |-> v.onDrawGameWinRate]

\* the same event document holding other wins / losses / draws values
OtherCounters == {-2, 3}

OtherRuns ==
  {[event EXCEPT !.wins = w, !.losses = l, !.draws = d] :
     w \in OtherCounters, l \in OtherCounters, d \in OtherCounters}

\* C10: the statistics each view shows (match record, game record, the four
\* win rates) are those of a run over the same rounds with any other stored
\* wins / losses / draws, negative and inconsistent values included, and each
\* view that loaded is rendered whatever the stored values are.
C10_StatsFromRoundsOnly ==
  /\ listView.loaded
       => \A other \in OtherRuns :
            /\ EventList_entry(other, rounds).loaded
            /\ ListStats(EventList_entry(other, rounds)) = ListStats(listView)
  /\ detailView.loaded
       => \A other \in OtherRuns :
            /\ EventDetail_entry(other, rounds).loaded
            /\ DetailStats(EventDetail_entry(other, rounds)) = DetailStats(detailView)
  /\ deckView.loaded
       => \A other \in OtherRuns :
            \E order \in Orders(DOMAIN rounds) :
              /\ DeckList_entry(1, other, rounds, order).loaded
              /\ DeckStats(DeckList_entry(1, other, rounds, order)) = DeckStats(deckView)

C10_Witness ==
  /\ listView.loaded /\ detailView.loaded /\ deckView.loaded
  /\ event.wins = -1 /\ event.losses = 5 /\ event.userDeckId = 1
  /\ Cardinality(DOMAIN rounds) = 2
  /\ listView.matchesWon = 1 /\ listView.matchesLost = 1
  /\ detailView.gamesWon = 2 /\ detailView.gameWinRate = 6667
  /\ deckView.matchWinRate = 5000

(***************************************************************************)
(* C11                                                                     *)
(***************************************************************************)
\* the games arrays of the rounds rs, as a sequence
RoundsOf(rs) == [i \in 1..Cardinality(DOMAIN rs) |-> rs[orderByCreatedAt(DOMAIN rs)[i]]]

\* the union of the rounds of the events evs
RECURSIVE UnionRounds(_)
UnionRounds(evs) ==
  IF evs = <<>> THEN <<>> ELSE RoundsOf(Head(evs).rounds) \o UnionRounds(Tail(evs))

\* all the games of the rounds u
RECURSIVE AllGames(_)
AllGames(u) == IF u = <<>> THEN <<>> ELSE Head(u) \o AllGames(Tail(u))

RoundsWith(u, o) == Cardinality({i \in DOMAIN u : OutcomeOf(u[i]) = o})

PlayedOn(games, p) == Cardinality({i \in DOMAIN games : games[i].onThePlay = p})

WonOn(games, p) ==
  Cardinality({i \in DOMAIN games : games[i].onThePlay = p /\ games[i].result = "win"})

\* the four rates computed once over the rounds u
RatesOver(u) ==
  [matchWinRate |-> winRate(RoundsWith(u, "win"), Len(u)),
   gameWinRate |-> winRate(NumGames(AllGames(u), "win"), Len(AllGames(u))),
   onPlayGameWinRate |-> winRate(WonOn(AllGames(u), TRUE), PlayedOn(AllGames(u), TRUE)),
   onDrawGameWinRate |-> winRate(WonOn(AllGames(u), FALSE), PlayedOn(AllGames(u), FALSE))]

Rates(v) ==
  [matchWinRate |-> v.matchWinRate, gameWinRate |-> v.gameWinRate,
   onPlayGameWinRate |-> v.onPlayGameWinRate,
   onDrawGameWinRate |-> v.onDrawGameWinRate]

\* the stored events whose userDeckId is the deck's id
EventsOfDeck == SelectSeq(StoredEvents, LAMBDA e : e.doc.userDeckId = Deck.id)

\* C11: the four rates and the lost / drawn match counts the deck list shows
\* for a deck are those computed once over the union of the rounds of all
\* the events whose userDeckId is the deck's id.
C11_DeckOverUnion ==
  deckView.loaded =>
    LET u == UnionRounds(EventsOfDeck)
    IN  /\ Rates(deckView) = RatesOver(u)
        /\ deckView.matchesLost = RoundsWith(u, "loss")
        /\ deckView.matchesDrawn = RoundsWith(u, "draw")

\* a deck with an event of 3 rounds (2 won) and an event of 2 rounds (none
\* won): 40% of the 5 rounds, neither the sum nor the mean of 66.67% and 0%
C11_Witness ==
  /\ deckView.loaded
  /\ Len(others) = 1 /\ Len(EventsOfDeck) = 2
  /\ Cardinality(DOMAIN others[1].rounds) = 3
  /\ Cardinality(DOMAIN rounds) = 2
  /\ RatesOver(RoundsOf(others[1].rounds)).matchWinRate = 6667
  /\ RatesOver(RoundsOf(rounds)).matchWinRate = 0
  /\ deckView.matchWinRate = 4000
  /\ deckView.gameWinRate = 10000

(***************************************************************************)
(* C12                                                                     *)
(***************************************************************************)
\* the sequence q reordered by p
Permuted(q, p) == [i \in DOMAIN q |-> q[p[i]]]

Reorderings(q) == {Permuted(q, p) : p \in Orders(DOMAIN q)}

\* C12: every field the event list shows for an event is the same for every
\* reordering of the event's rounds, and every field the deck list shows for
\* a deck is the same for every reordering of the events and, within each
\* event, of its rounds.
C12_PermutationInvariant ==
  /\ listView.loaded =>
       \A mapped \in Reorderings(EventList_mapRounds(rounds)) :
         ListStats(EventList_pushed(event, mapped,
                     EventList_foldRounds(mapped, 1, ZeroFold))) = ListStats(listView)
  /\ deckView.loaded =>
       \A evs \in Reorderings(StoredEvents) :
         \A orders \in RoundOrders(evs) :
           DeckStats(DeckList_deckEntry(Deck.id, evs, orders)) = DeckStats(deckView)

\* both views loaded for a deck of two events with different rounds, the
\* listed event holding a won and a lost round
C12_Witness ==
  /\ listView.loaded /\ deckView.loaded
  /\ Len(EventsOfDeck) = 2
  /\ Cardinality(DOMAIN rounds) = 2
  /\ listView.matchesWon = 1 /\ listView.matchesLost = 1
  /\ Cardinality(DOMAIN others[1].rounds) = 3
  /\ deckView.matchesDrawn = 3

(***************************************************************************)
(* C13                                                                     *)
(***************************************************************************)
\* the numerator and denominator of each rate, from the fold's accumulators
RateInputs ==
  [matchWinRate |-> <<totals.matchesWon, totals.totalMatches>>,
   gameWinRate |-> <<totals.gamesWon, totals.totalGames>>,
   onPlayGameWinRate |-> <<totals.gamesWonOnPlay, totals.gamesPlayedOnPlay>>,
   onDrawGameWinRate |-> <<totals.gamesWonOnDraw, totals.gamesPlayedOnDraw>>]

LoadedViews == {v \in {listView, detailView, deckView} : v.loaded}

Abs(x) == IF x < 0 THEN -x ELSE x

\* r hundredths of a percent is n / d * 100 to two decimals
IsRateOf(r, n, d) == 2 * Abs(r * d - 10000 * n) <= d

\* C13: in every view each of the four rates is its numerator over its
\* denominator times 100, to two decimals, and 0 when the denominator is 0;
\* every rate lies in [0, 100].
C13_RatesDefined ==
  \A v \in LoadedViews : \A k \in DOMAIN RateInputs :
    LET n == RateInputs[k][1]
        d == RateInputs[k][2]
    IN  /\ d = 0 => v[k] = 0
        /\ d > 0 => IsRateOf(v[k], n, d)
        /\ 0 <= v[k] /\ v[k] <= 10000

\* 3 single-game rounds played on the play, 2 of them won: 66.67% of the
\* matches and games, and 0 for the rate on the draw, which has no games
C13_Witness ==
  /\ listView.loaded /\ detailView.loaded /\ deckView.loaded
  /\ totals.totalMatches = 3 /\ totals.matchesWon = 2
  /\ totals.gamesPlayedOnDraw = 0
  /\ detailView.matchWinRate = 6667 /\ deckView.gameWinRate = 6667
  /\ listView.onPlayGameWinRate = 6667
  /\ detailView.onDrawGameWinRate = 0 /\ deckView.onDrawGameWinRate = 0

(***************************************************************************)
(* C14                                                                     *)
(***************************************************************************)
\* n / d * 100 rounded once to 2 decimals, half away from zero, in
\* hundredths of a percent
RoundHalfAway(n, d) == (20000 * n + d) \div (2 * d)

\* C14: in the event list and the event detail each of the four percentages
\* is the exact final ratio times 100 rounded once to 2 decimal places, half
\* away from zero.
C14_RoundHalfAway ==
  \A v \in LoadedViews \ {deckView} : \A k \in DOMAIN RateInputs :
    RateInputs[k][2] > 0 => v[k] = RoundHalfAway(RateInputs[k][1], RateInputs[k][2])

(***************************************************************************)
(* C15                                                                     *)
(***************************************************************************)
\* C15: a submission of the round form with an empty game list is answered
\* with an error whatever else the form holds, the step that sets the
\* no-games error writes neither the rounds nor the counters, and no round
\* with zero games is ever persisted by the form.
C15_EmptyRejected ==
  /\ [](\A inks \in InkChoices : validate(inks, <<>>) # NoError)
  /\ [](\A id \in DOMAIN rounds : Len(rounds[id]) > 0)
  /\ [][(error' = ErrNoGames /\ alert' = NoAlert)
          => UNCHANGED <<event, rounds, nextId>>]_vars

\* the no-games error shown over an event that has rounds to edit
C15_Witness ==
  /\ error = ErrNoGames /\ alert = NoAlert
  /\ Cardinality(DOMAIN rounds) = 2
  /\ event.wins = 2

(***************************************************************************)
(* C16                                                                     *)
(***************************************************************************)
Plus(a, b) ==
  [wins |-> a.wins + b.wins, losses |-> a.losses + b.losses, draws |-> a.draws + b.draws]

\* C16: once an edit attempt has ended, with success or with a rejected
\* storage write, either the persisted games of the round and the event
\* counters both reflect the edit or neither does.
C16_EditIsOneUnit ==
  (ops[1].pc \in {"done", "failed"} /\ ops[1].kind = "edit") =>
    \/ /\ rounds[ops[1].rid] = ops[1].games
       /\ Counters(event) = Plus(Counters(init0.event), ops[1].d)
    \/ /\ rounds[ops[1].rid] = init0.rounds[ops[1].rid]
       /\ Counters(event) = Counters(init0.event)

(***************************************************************************)
(* C17                                                                     *)
(***************************************************************************)
\* the view v was loaded from the store as it is now
LoadedFromCurrent(v) ==
  /\ v.loaded
  /\ [i \in DOMAIN v.rounds |-> v.rounds[i].games] = RoundsOf(rounds)
  /\ Counters(v) = Counters(event)

\* C17: after a round mutation that committed only one of its two writes,
\* once an event view has loaded and folded the event's rounds again the
\* stored wins / losses / draws equal the per-outcome round counts.
C17_ReadHealsCounters ==
  (/\ ops[1].pc = "failed"
   /\ rounds # init0.rounds
   /\ LoadedFromCurrent(listView) \/ LoadedFromCurrent(detailView))
    => Counters(event) = RoundCounts(rounds)

(***************************************************************************)
(* C18                                                                     *)
(***************************************************************************)
\* the fields the event list and the event detail both compute
SharedEventStats(v) ==
  [matchesWon |-> v.matchesWon, matchesLost |-> v.matchesLost,
   matchesDrawn |-> v.matchesDrawn,
   gamesLost |-> v.gamesLost, gamesDrawn |-> v.gamesDrawn] @@ Rates(v)

\* C18: over the same rounds of one event the event list and the event
\* detail compute the same matchesWon / Lost / Drawn, gamesLost / Drawn and
\* four win rates, and the deck list, for the deck whose only event it is,
\* the same matchesLost, matchesDrawn and four win rates.
C18_ViewsAgree ==
  /\ (listView.loaded /\ detailView.loaded)
       => SharedEventStats(listView) = SharedEventStats(detailView)
  /\ (deckView.loaded /\ event.userDeckId = Deck.id)
       => /\ listView.loaded => DeckStats(deckView) = DeckStats(listView)
          /\ detailView.loaded => DeckStats(deckView) = DeckStats(detailView)

\* the three views loaded over a won round and a drawn round of two games
C18_Witness ==
  /\ listView.loaded /\ detailView.loaded /\ deckView.loaded
  /\ event.userDeckId = Deck.id
  /\ Cardinality(DOMAIN rounds) = 2
  /\ deckView.matchesDrawn = 1 /\ deckView.matchWinRate = 5000
  /\ deckView.gameWinRate = 3333
  /\ deckView.onDrawGameWinRate = 10000

(***************************************************************************)
(* C19                                                                     *)
(***************************************************************************)
\* the six counts over the rounds u
CountsOver(u) ==
  [matchesWon |-> RoundsWith(u, "win"), matchesLost |-> RoundsWith(u, "loss"),
   matchesDrawn |-> RoundsWith(u, "draw"),
   gamesWon |-> NumGames(AllGames(u), "win"),
   gamesLost |-> NumGames(AllGames(u), "loss"),
   gamesDrawn |-> NumGames(AllGames(u), "draw")]

\* C19: the record the event list and the event detail each produce for an
\* event holds the six fields matchesWon, matchesLost, matchesDrawn, gamesWon,
\* gamesLost and gamesDrawn, each the corresponding count over the rounds.
C19_SixCounts ==
  \A v \in {listView, detailView} :
    v.loaded =>
      \A k \in DOMAIN CountsOver(<<>>) :
        k \in DOMAIN v /\ v[k] = CountsOver(RoundsOf(rounds))[k]

(***************************************************************************)
(* C20                                                                     *)
(***************************************************************************)
\* the stored events of the deck, those without userDeckId whose userDeck is
\* the deck's name included
EventsOfDeckOrName ==
  SelectSeq(StoredEvents,
            LAMBDA e : \/ e.doc.userDeckId = Deck.id
                       \/ e.doc.userDeckId = NoDeckId /\ e.doc.userDeck = Deck.name)

\* C20: the deck list's statistics for a deck cover the rounds of the events
\* whose userDeckId is the deck's id and of the events that have no
\* userDeckId and whose deck-name field equals the deck's name.
C20_DeckNameFallback ==
  deckView.loaded =>
    LET u == UnionRounds(EventsOfDeckOrName)
    IN  /\ Rates(deckView) = RatesOver(u)
        /\ deckView.matchesLost = RoundsWith(u, "loss")
        /\ deckView.matchesDrawn = RoundsWith(u, "draw")

(***************************************************************************)
(* C21                                                                     *)
(***************************************************************************)
ValidGames(games) == SelectSeq(games, LAMBDA g : g.result \in Results)

ValidRounds(rs) == [id \in DOMAIN rs |-> ValidGames(rs[id])]

\* C21: a game whose result is none of win, loss, draw contributes to no
\* round outcome, count or rate denominator: what each view shows is what it
\* shows for the same rounds without those games.
C21_InvalidResultIgnored ==
  /\ listView.loaded =>
       ListStats(listView) = ListStats(EventList_entry(event, ValidRounds(rounds)))
  /\ detailView.loaded =>
       DetailStats(detailView) = DetailStats(EventDetail_entry(event, ValidRounds(rounds)))
  /\ deckView.loaded =>
       DeckStats(deckView)
         = DeckStats(DeckList_entry(Deck.id, event, ValidRounds(rounds), <<1>>))

(***************************************************************************)
(* C22                                                                     *)
(***************************************************************************)
\* C22: when a storage write of a round add, edit or delete is rejected the
\* failure is shown (RoundForm's error, handleDeleteRound's error alert), no
\* success alert is shown, the form is not reset and onRoundAdded is not
\* called; RoundForm's loading flag is false once the submit handler ended.
C22_FailureSurfaced ==
  /\ ops[1].pc = "failed" =>
       /\ ops[1].kind \in {"add", "edit"} =>
            /\ error = ErrStorage
            /\ alert = NoAlert
            /\ ops[1].formGames = ops[1].games
            /\ ops[1].roundAdded = 0
       /\ ops[1].kind = "delete" => alert = AlertRoundDeleteFailed
  /\ ops[1].pc \in {"done", "failed"} => ~ops[1].loading

\* an edit whose round write went through and whose counter write was rejected
C22_Witness ==
  /\ ops[1].pc = "failed" /\ ops[1].kind = "edit"
  /\ rounds[1] = ops[1].games /\ rounds[1] # init0.rounds[1]
  /\ error = ErrStorage

(***************************************************************************)
(* C23                                                                     *)
(***************************************************************************)
\* C23: a round form opened on a Tournament event with an empty game list
\* never holds more than 3 games; add-game at 3 games leaves the list as it is
\* and yields the error; on a Playtest event add-game appends one game.
C23_TournamentCap ==
  roundForm.open =>
    /\ (roundForm.eventType = "Tournament" /\ roundForm.roundId = NoRound)
         => Len(roundForm.games) <= 3
    /\ (roundForm.eventType = "Tournament" /\ Len(roundForm.games) = 3)
         => handleAddGame(roundForm.eventType, roundForm.games)
              = [games |-> roundForm.games, error |-> ErrMaxGames]
    /\ roundForm.eventType = "Playtest"
         => handleAddGame(roundForm.eventType, roundForm.games)
              = [games |-> Append(roundForm.games, DefaultGame), error |-> NoError]

\* add-game refused on a Tournament form that holds three games, one changed
C23_Witness ==
  /\ roundForm.open /\ roundForm.eventType = "Tournament"
  /\ roundForm.roundId = NoRound
  /\ Len(roundForm.games) = 3
  /\ roundForm.games[2].result = "loss"
  /\ error = ErrMaxGames

C25_CountersAreGameTotals ==
  /\ event.wins = GameCounts(rounds).wins /\ event.wins >= 0
  /\ event.losses = GameCounts(rounds).losses /\ event.losses >= 0
  /\ event.draws = GameCounts(rounds).draws /\ event.draws >= 0

\* an edit after a delete: one of two rounds is left and holds two draws
C25_Witness ==
  /\ alert = AlertUpdated
  /\ nextId = 3
  /\ Cardinality(DOMAIN rounds) = 1
  /\ Counters(event) = [wins |-> 0, losses |-> 1, draws |-> 2]

(***************************************************************************)
(* C28                                                                     *)
(***************************************************************************)
\* C28: every round persisted under an event whose type is Tournament has
\* between 1 and 3 games, whatever events were created and edited and
\* whatever rounds were added and edited.
C28_TournamentRounds ==
  event.type = "Tournament" =>
    \A id \in DOMAIN rounds : Len(rounds[id]) \in 1..TournamentMaxGames

(***************************************************************************)
(* C29                                                                     *)
(***************************************************************************)
\* C29: editing an event through the event form leaves the stored wins,
\* losses and draws, createdAt and the round collection as they were.
C29_EditEventFrame ==
  [][alert' = AlertEventUpdated
       => /\ Counters(event') = Counters(event)
          /\ event'.createdAt = event.createdAt
          /\ event'.exists = event.exists
          /\ rounds' = rounds /\ nextId' = nextId]_vars

\* an event with a persisted round renamed and changed to the other type
C29_Witness ==
  /\ alert = AlertEventUpdated
  /\ event.type # init0.event.type
  /\ event.name = "F"
  /\ DOMAIN rounds = {1}
  /\ event.wins >= 1 /\ event.losses >= 1

(***************************************************************************)
(* C30                                                                     *)
(***************************************************************************)
\* C30: in the deck form, toggling an ink colour that is not selected adds it
\* while fewer than two are selected and leaves the selection with an error
\* while two are selected; the error is therefore shown only over a selection
\* of two, and a named deck that has been refused for want of an ink colour
\* can still get one.
C30_DeckInkToggle ==
  /\ deckForm.error = ErrMaxInks => Len(deckForm.selectedInkColors) = 2
  /\ \A i \in DOMAIN InkNames :
       LET sel == deckForm.selectedInkColors
           r == DeckForm_handleInkColorToggle(sel, InkNames[i])
       IN  (\A j \in DOMAIN sel : sel[j] # InkNames[i]) =>
             /\ Len(sel) < 2 =>
                  r = [colors |-> sortInks(Append(sel, InkNames[i])), error |-> NoError]
             /\ Len(sel) = 2 => r = [colors |-> sel, error |-> ErrMaxInks]

(***************************************************************************)
(* C26                                                                     *)
(***************************************************************************)
\* C26: the event list is never replaced by the result of an older snapshot
\* than the one it shows, and once no callback is in flight it holds only
\* events of the current filter's query.
C26_NewestSnapshotShown ==
  /\ [][events'.snapshot >= events.snapshot]_vars
  /\ []((\A cb \in callbacks : cb.list # "events")
          => \A i \in DOMAIN events.ids :
               eventTypeFilter = "all" \/ others[events.ids[i]] = eventTypeFilter)

(***************************************************************************)
(* C27                                                                     *)
(***************************************************************************)
IsInOrder(ids) == \A i, j \in DOMAIN ids : i < j => ids[i] < ids[j]

\* C27: the event list shows the events in the order of the query (startDate
\* descending) and the deck list shows the decks in createdAt descending
\* order, whatever order the per-item fetches finish in.
C27_QueryOrder == IsInOrder(events.ids) /\ IsInOrder(decks.ids)

====
